---------------------------- MODULE Spec2Model ----------------------------
(***************************************************************************)
(* Model of the flight-dynamics engine of the 2-D model rocket simulator:  *)
(* calculateFlightPath (RocketPhysics.jsx), the simulation loop, and its   *)
(* caller handleLaunch (RocketSimulator.jsx).                              *)
(*                                                                         *)
(* Numbers.  The loop clock `time` is a JavaScript double that the code    *)
(* advances by repeated addition of dt = 0.02; the loop guard, the phase   *)
(* thresholds and the thrust index all compare that accumulated double, so *)
(* it is modelled bit-exactly (round-to-nearest-even, 53-bit significand)  *)
(* by the Dbl* operators below.  Every other real quantity is carried in   *)
(* fixed point, the unit being part of each definition's comment:          *)
(*   position um (1e-6 m), velocity 1e-4 m/s, acceleration mm/s^2,         *)
(*   force 1e-5 N, angle urad, torque uN.m, angular velocity 1e-4 rad/s.   *)
(***************************************************************************)
EXTENDS Integers, Sequences, FiniteSets, TLC

(***************************************************************************)
(* IEEE-754 binary64 values in 0 .. 32, as exact multiples of 2^-58 held   *)
(* in three limbs <<a2, a1, a0>> of 21 bits (value = a2*2^42+a1*2^21+a0).  *)
(***************************************************************************)
Limb == 2^21

RECURSIVE FloorLog2(_)
FloorLog2(n) == IF n <= 1 THEN 0 ELSE 1 + FloorLog2(n \div 2)

\* carry propagation of limb-wise sums and products
DblNorm(a) ==
  LET c0 == a[3] \div Limb
      s1 == a[2] + c0
      c1 == s1 \div Limb
  IN  << a[1] + c1, s1 % Limb, a[3] % Limb >>

\* rounding of an exact value to the nearest double, ties to even
DblRound(a) ==
  LET k  == IF a[1] < 2^10 THEN 0 ELSE FloorLog2(a[1]) - 10
      m  == 2^k
      r  == a[3] % m
      q  == a[3] \div m
      up == (2 * r > m) \/ (2 * r = m /\ q % 2 = 1)
  IN  DblNorm(<< a[1], a[2], a[3] - r + (IF up THEN m ELSE 0) >>)

\* a + b in double arithmetic
DblAdd(a, b) == DblRound(DblNorm(<< a[1] + b[1], a[2] + b[2], a[3] + b[3] >>))

\* n * a in double arithmetic, n a small non-negative integer
DblMulInt(n, a) == DblRound(DblNorm(<< n * a[1], n * a[2], n * a[3] >>))

\* the double of a small non-negative integer
DblFromInt(n) == << n * 2^16, 0, 0 >>

DblLt(a, b) ==
  \/ a[1] < b[1]
  \/ a[1] = b[1] /\ a[2] < b[2]
  \/ a[1] = b[1] /\ a[2] = b[2] /\ a[3] < b[3]

DblGe(a, b) == ~DblLt(a, b)

\* exact n * a (no rounding), for the quotient search below
DblTimes(n, a) == DblNorm(<< n * a[1], n * a[2], n * a[3] >>)

\* exact b - a in units of 2^-58, saturated at 2^21 (only small gaps matter)
DblGap(a, b) ==
  IF b[1] # a[1] \/ b[2] - a[2] > 1 \/ b[2] < a[2] THEN Limb
  ELSE (b[2] - a[2]) * Limb + b[3] - a[3]

RECURSIVE DblQuotFrom(_, _, _)
DblQuotFrom(n, t, d) ==
  IF DblLt(t, DblTimes(n, d)) THEN DblQuotFrom(n - 1, t, d)
  ELSE IF DblGe(t, DblTimes(n + 1, d)) THEN DblQuotFrom(n + 1, t, d)
  ELSE n

\* Math.floor(t / d): the exact quotient n, or n + 1 when t / d is within half
\* an ulp of n + 1 so that the double division already rounds up to it
DblFloorDiv(t, d) ==
  LET n   == DblQuotFrom(t[1] \div d[1], t, d)
      gap == DblGap(t, DblTimes(n + 1, d))
      e   == IF n = 0 THEN -1 ELSE FloorLog2(n)
      \* gap / d <= 2^(e-53), with d = d[1] * 2^42 up to its low limbs
  IN  IF gap <= d[1] /\ gap * 2^(11 - e) <= d[1] THEN n + 1 ELSE n

\* truncation of a double to whole milliseconds
DblToMilli(a) == (a[1] * 1000 + (a[2] * 1000) \div Limb) \div 2^16

(***************************************************************************)
(* Fixed-point arithmetic on 32-bit integers.                              *)
(***************************************************************************)
Abs(a) == IF a < 0 THEN -a ELSE a

Sgn(a) == IF a > 0 THEN 1 ELSE IF a < 0 THEN -1 ELSE 0

Min(a, b) == IF a < b THEN a ELSE b

Max(a, b) == IF a > b THEN a ELSE b

\* Math.max(lo, Math.min(hi, v))
Clamp(lo, hi, v) == Max(lo, Min(hi, v))

\* a / b to the nearest integer, halves away from zero (b > 0)
RDiv(a, b) == Sgn(a) * ((2 * Abs(a) + b) \div (2 * b))

\* floor and remainder of a * b / c for a, b >= 0, by long multiplication in
\* base B (c * B < 2^30), never forming the full product
RECURSIVE MulDivQR(_, _, _, _)
MulDivQR(a, b, c, B) ==
  IF b = 0 THEN << 0, 0 >>
  ELSE LET h == MulDivQR(a, b \div B, c, B)
           d == b % B
           t == h[2] * B + (a % c) * d
       IN  << h[1] * B + (a \div c) * d + t \div c, t % c >>

\* a * b / c to the nearest integer (0 < c < 2^29)
MulDiv(a, b, c) ==
  LET qr == MulDivQR(Abs(a), Abs(b), c, IF c <= 2^20 THEN 1024 ELSE 2)
  IN  Sgn(a) * Sgn(b) * (qr[1] + (IF 2 * qr[2] >= c THEN 1 ELSE 0))

RECURSIVE ISqrtIter(_, _)
ISqrtIter(n, g) ==
  LET h == (g + n \div g) \div 2
  IN  IF h >= g THEN g ELSE ISqrtIter(n, h)

\* Math.floor(Math.sqrt(n))
ISqrt(n) == IF n <= 0 THEN 0 ELSE ISqrtIter(n, Min(n, 46340))

\* Math.sqrt(a * a + b * b), operands halved until the squares fit
RECURSIVE Hypot(_, _)
Hypot(a, b) ==
  IF Abs(a) < 2^15 /\ Abs(b) < 2^15 THEN ISqrt(a * a + b * b)
  ELSE 2 * Hypot(RDiv(a, 2), RDiv(b, 2))

\* Math.PI in urad, and its half
PiU == 3141593

HalfPiU == 1570796

Million == 10^6

\* an angle in urad brought into (-pi, pi]
Wrap(x) ==
  LET r == x % (2 * PiU)
  IN  IF r > PiU THEN r - 2 * PiU ELSE r

\* sin x for |x| <= pi/2 by its Taylor polynomial of degree 11; result * 10^6
SinRed(x) ==
  LET x2 == MulDiv(x, x, Million)
      t5 == Million - x2 \div 110
      t4 == Million - MulDiv(x2, t5, Million) \div 72
      t3 == Million - MulDiv(x2, t4, Million) \div 42
      t2 == Million - MulDiv(x2, t3, Million) \div 20
      t1 == Million - MulDiv(x2, t2, Million) \div 6
  IN  MulDiv(x, t1, Million)

\* an angle of (-pi, pi] reflected into [-pi/2, pi/2], the sine unchanged
Fold(w) ==
  IF w > HalfPiU THEN PiU - w
  ELSE IF w < -HalfPiU THEN -PiU - w
  ELSE w

\* Math.sin of an angle in urad, result * 10^6
Sin(x) == SinRed(Fold(Wrap(x)))

\* Math.cos of an angle in urad, result * 10^6
Cos(x) == Sin(x + HalfPiU)

\* atan z for 0 <= z <= 1 (z * 10^6), odd minimax polynomial of degree 11
AtanUnit(z) ==
  LET z2 == MulDiv(z, z, Million)
      p5 == -11721
      p4 == 52653 + MulDiv(p5, z2, Million)
      p3 == -116433 + MulDiv(p4, z2, Million)
      p2 == 193543 + MulDiv(p3, z2, Million)
      p1 == -332623 + MulDiv(p2, z2, Million)
      p0 == 999977 + MulDiv(p1, z2, Million)
  IN  MulDiv(z, p0, Million)

\* halving toward zero
Half(a) == Sgn(a) * (Abs(a) \div 2)

RECURSIVE Shrink(_, _)
Shrink(a, b) ==
  IF Abs(a) < 2^20 /\ Abs(b) < 2^20 THEN << a, b >>
  ELSE Shrink(Half(a), Half(b))

\* atan(yy / xx) in urad for yy, xx >= 0
AtanRatio(yy, xx) ==
  IF xx = 0 /\ yy = 0 THEN 0
  ELSE IF xx >= yy THEN AtanUnit(MulDiv(yy, Million, xx))
  ELSE HalfPiU - AtanUnit(MulDiv(xx, Million, yy))

\* the first-quadrant angle q carried to the quadrant of the point (x, y)
Quadrant(y, x, q) ==
  LET h == IF x < 0 THEN PiU - q ELSE q
  IN  IF y < 0 THEN -h ELSE h

AtanPair(p) == Quadrant(p[1], p[2], AtanRatio(Abs(p[1]), Abs(p[2])))

\* Math.atan2(b, a) in urad
Atan2(b, a) == AtanPair(Shrink(b, a))

\* the JavaScript remainder a % b (sign of the dividend)
Rem(a, b) == Sgn(a) * (Abs(a) % b)

\* radians (urad) to degrees (mdeg): x * 180 / Math.PI
RadToDeg(o) == MulDiv(o, 1800, 31416)

\* whole degrees to radians (urad): angle * Math.PI / 180
DegToRad(d) == RDiv(d * 17453293, 1000)

\* the literal 0.02 (0x3F947AE147AE147B): 5764607523034235 * 2^-58
dt == << 1310, 1509949, 922747 >>

(***************************************************************************)
(* Constants of RocketConstants and of calculateFlightPath.                *)
(***************************************************************************)
\* thrust curves, one sample per dt, in mN
MOTOR_THRUST_DATA ==
  [ m \in {"1/2A6-2", "A8-3", "B6-4"} |->
      CASE m = "1/2A6-2" ->
             << 0, 445, 891, 1336, 1782, 2227, 2673, 3118, 3564, 4009, 4455,
                3345, 2236, 2012, 1789, 1565, 1341, 1118, 1118, 1118, 1118,
                1118, 1118, 1118, 1118, 1118, 1118, 1118, 1118, 1118, 894,
                671, 447, 224 >>
        [] m = "A8-3" ->
             << 0, 891, 1782, 2673, 3564, 4455, 5345, 6236, 7127, 8018, 8909,
                9800, 6900, 4000, 3600, 3200, 2800, 2400, 2400, 2400, 2400,
                2400, 2400, 2400, 2400, 2400, 2400, 2400, 2400, 2400, 2400,
                2400, 2400, 1600, 800 >>
        [] m = "B6-4" ->
             << 0, 1782, 3564, 5345, 7127, 8909, 10691, 12473, 14255, 16036,
                17818, 19600, 13800, 8000, 7200, 6400, 5600, 4800, 4800, 4800,
                4800, 4800, 4800, 4800, 4800, 4800, 4800, 4800, 4800, 4800,
                4800, 3200, 1600 >> ]

\* nose drag coefficients * 10^4
NOSE_SHAPES == [ cone |-> 8300, parabola |-> 7000, ogive |-> 6100 ]

\* power-law exponents of the wind profiles * 100
WIND_PROFILES ==
  [ uniform |-> 0, openSea |-> 12, farmland |-> 20, suburban |-> 30,
    urban |-> 40 ]

\* PHYSICAL_CONSTANTS.launchRailLength, 0.65 m in um
launchRailLength == 650000

\* a window of eleven steps, to show what depends on the window length
ANGLE_STEPS_PER_UPDATE_Long == 10 + 1

ANGLE_STEPS_PER_UPDATE == 10

\* ANGLE_RESPONSE_DT = 0.2 s, as the factor of angularAcceleration * dt2:
\* 1e-4 rad/s^2 * 0.2 s = value / 5 in 1e-4 rad/s
ANGLE_RESPONSE_DT_DIV == 5

\* a cap one second later than the code's, to show what depends on the cap
MAX_TIME_Late == DblFromInt(21)

\* the simulated-time cap, 20 s
MAX_TIME == DblFromInt(20)

\* the literal 0.1 of the loop guard (0x3FB999999999999A)
GRACE_TIME == << 6553, 1258291, 419432 >>

\* abnormal-torque threshold, 10.0 N.m in uN.m
TORQUE_THRESHOLD == 10000000

\* the torque clamp, 1.0 N.m in uN.m
TORQUE_CLAMP == 1000000

\* +-45 degrees and +-112.5 degrees in mdeg
MAX_ANGLE_CHANGE_PER_DT2 == 45000

MAX_ABSOLUTE_ANGLE == 112500

\* the speed cap of 100 m/s in 1e-4 m/s
MAX_SPEED == 1000000

\* a cap of 5 rad/s at the rotational update, to show what depends on the cap
ANGULAR_VELOCITY_UPDATE_CAP_Wide == 30000 + 20000

\* the angular velocity caps: 3 rad/s at the rotational update, 5 rad/s per step
ANGULAR_VELOCITY_UPDATE_CAP == 30000

MAX_ANGULAR_VELOCITY == 50000

\* g = 9.81 m/s^2 in mm/s^2
g == 9810

\* ENHANCED_ATTITUDE_CONTROL and WIND_ANGLE_LIMITATION, the defaults of config
ENHANCED_ATTITUDE_CONTROL == FALSE

WIND_ANGLE_LIMITATION == FALSE

\* parseInt(selectedMotor.split('-')[1]): the delay digit of the motor name
parachuteDelayOf(selectedMotor) ==
  CASE selectedMotor = "1/2A6-2" -> 2
    [] selectedMotor = "A8-3" -> 3
    [] selectedMotor = "B6-4" -> 4

thrustEndTimeOf(rp) == DblMulInt(Len(MOTOR_THRUST_DATA[rp.selectedMotor]), dt)

parachuteEjectionTimeOf(rp) ==
  DblAdd(thrustEndTimeOf(rp), DblFromInt(parachuteDelayOf(rp.selectedMotor)))

\* a deployment of two seconds, to show what depends on parachuteDeployTime
parachuteActiveTimeLate(rp) ==
  DblAdd(parachuteEjectionTimeOf(rp), DblFromInt(2))

\* parachuteDeployTime = 1.0
parachuteActiveTimeOf(rp) == DblAdd(parachuteEjectionTimeOf(rp), DblFromInt(1))

(***************************************************************************)
(* Rocket designs.  A rocketParams record carries the fields of the        *)
(* simulator's design state under their source names; every length is in   *)
(* units of 0.1 mm (finHeight 57.5 mm is 575), weight in g, the parachute   *)
(* by its diameter in mm, finCp in um.                                      *)
(***************************************************************************)
initialRocketState ==
  [ noseShape |-> "ogive", noseHeight |-> 570, bodyHeight |-> 2550,
    bodyWidth |-> 310, finHeight |-> 575, finBaseWidth |-> 650,
    finTipWidth |-> 250, finThickness |-> 15, finSweepLength |-> 825,
    finCount |-> 3, weight |-> 50, centerOfGravity |-> 1500 ]

\* a design the sliders allow: low, thick, forward-swept fins and the centre
\* of gravity far aft
aftHeavyRocketState ==
  [ noseShape |-> "ogive", noseHeight |-> 460, bodyHeight |-> 3570,
    bodyWidth |-> 310, finHeight |-> 130, finBaseWidth |-> 610,
    finTipWidth |-> 690, finThickness |-> 90, finSweepLength |-> 90,
    finCount |-> 4, weight |-> 146, centerOfGravity |-> 2950 ]

\* a design the sliders allow: low, long-swept fins and the centre of gravity
\* in the nose
foreHeavyRocketState ==
  [ noseShape |-> "ogive", noseHeight |-> 460, bodyHeight |-> 3390,
    bodyWidth |-> 400, finHeight |-> 210, finBaseWidth |-> 790,
    finTipWidth |-> 650, finThickness |-> 20, finSweepLength |-> 1400,
    finCount |-> 4, weight |-> 32, centerOfGravity |-> 340 ]

\* the fields the aerodynamic property functions read
Geometry(rp) ==
  << rp.noseShape, rp.noseHeight, rp.bodyHeight, rp.bodyWidth, rp.finHeight,
     rp.finBaseWidth, rp.finTipWidth, rp.finThickness, rp.finSweepLength,
     rp.finCount >>

\* calculateProjectedArea, tabulated at the designs above: areas in mm^2
calculateProjectedArea(rp) ==
  CASE Geometry(rp) = Geometry(initialRocketState) ->
         [ sideArea |-> 13297, totalFinArea |-> 4214 ]
    [] Geometry(rp) = Geometry(aftHeavyRocketState) ->
         [ sideArea |-> 13708, totalFinArea |-> 1690 ]
    [] Geometry(rp) = Geometry(foreHeavyRocketState) ->
         [ sideArea |-> 17811, totalFinArea |-> 3024 ]

\* calculateCenterOfPressure, tabulated at the designs above: positions from
\* the nose tip in um
calculateCenterOfPressure(rp) ==
  CASE Geometry(rp) = Geometry(initialRocketState) ->
         [ centerOfPressure |-> 209601, finCp |-> 306120 ]
    [] Geometry(rp) = Geometry(aftHeavyRocketState) ->
         [ centerOfPressure |-> 229829, finCp |-> 379133 ]
    [] Geometry(rp) = Geometry(foreHeavyRocketState) ->
         [ centerOfPressure |-> 235477, finCp |-> 409845 ]

\* calculateAerodynamicCenter, tabulated at the designs above, in um (the
\* formula's hn term puts it far ahead of the nose for low fins)
calculateAerodynamicCenter(rp) ==
  CASE Geometry(rp) = Geometry(initialRocketState) ->
         [ aerodynamicCenter |-> 262908 ]
    [] Geometry(rp) = Geometry(aftHeavyRocketState) ->
         [ aerodynamicCenter |-> -1058120 ]
    [] Geometry(rp) = Geometry(foreHeavyRocketState) ->
         [ aerodynamicCenter |-> -16682362 ]

\* the rocketParams object the simulator builds (useMemo): the design and the
\* motor and parachute selection.  It has no finCp; calculateFlightPath
\* assigns that field to the object it is given.
simulationParams(design, selectedMotor, selectedParachute) ==
  [ selectedMotor |-> selectedMotor, selectedParachute |-> selectedParachute,
    finMaterial |-> "light_veneer" ]
    @@ design

(***************************************************************************)
(* NaN.  A number of the program that can be NaN is modelled by an integer  *)
(* and a name in a set of NaNs kept next to it (the field nan of the locals *)
(* and of a FlightSample); the integer of a NaN is 0.  NaN arises in one    *)
(* place, mmToM(rocketParams.finCp) of an object without finCp, and spreads *)
(* as the arithmetic and the comparisons of the source spread it: every     *)
(* operation on a NaN gives NaN, every comparison with a NaN is false.      *)
(***************************************************************************)
IsNaN(l, name) == name \in l.nan

\* the integer kept for a number: 0 when it is NaN
Num(isNaN, v) == IF isNaN THEN 0 ELSE v

\* the set of the names whose flag is set
NaNs(flags) == { n \in DOMAIN flags : flags[n] }

\* momentOfInertia in 1e-7 kg.m^2: body term plus the fins about finCp
\* (finMaterial light_veneer, 500 kg/m^3: fin mass in ug = volume in mm^3 * 500),
\* for a rocketParams with finCp; without it the source computes NaN
momentOfInertia(rp) ==
  LET finMass == RDiv((rp.finTipWidth + rp.finBaseWidth) * rp.finHeight
                        * rp.finThickness, 4)
      chord   == IF rp.finSweepLength + rp.finTipWidth > rp.finBaseWidth
                 THEN rp.finSweepLength + rp.finTipWidth
                 ELSE rp.finBaseWidth
      \* fin_momentOfInertia = (chord / 2)^2 * finMass / 3, in 1e-9 kg.m^2
      finI    == RDiv(MulDiv(MulDiv(chord, chord, 400), finMass, Million), 3)
      cp2     == MulDiv(rp.finCp, rp.finCp, Million)
      span    == MulDiv(MulDiv(rp.finTipWidth + 2 * rp.finBaseWidth, 1000,
                               3 * (rp.finTipWidth + rp.finBaseWidth)),
                        rp.finHeight * (IF rp.finCount = 3 THEN 866 ELSE 1000),
                        Million)
      \* cg_to_sideFincg squared, mm^2
      d2      == MulDiv(span, span, 100) + cp2
      fins    == (finI + MulDiv(finMass, cp2, Million))
                   * (IF rp.finCount = 3 THEN 1 ELSE 2)
                 + (finI + MulDiv(finMass, d2, Million)) * 2
      bodyMass == rp.weight * 1000 - RDiv(3 * finMass, 1000)
      \* 0.25 * bodyRadius^2 + 0.0833 * bodyLength^2, in 0.01 mm^2
      k       == RDiv(rp.bodyWidth * rp.bodyWidth, 16)
                 + MulDiv((rp.bodyHeight + rp.noseHeight)
                            * (rp.bodyHeight + rp.noseHeight), 833, 10000)
  IN  RDiv(MulDiv(bodyMass, k, 100000) + fins, 100)

(***************************************************************************)
(* Helper functions of RocketPhysics.jsx.                                  *)
(***************************************************************************)
\* ln 2 * 10^6
Ln2U == 693147

\* natural logarithm * 10^6 of f / 10^6 for 10^6 <= f < 2 * 10^6:
\* 2 * atanh(z) with z = (f - 1) / (f + 1), series to z^11
LnUnit(f) ==
  LET z  == MulDiv(f - Million, Million, f + Million)
      z2 == MulDiv(z, z, Million)
      p5 == 111111 + MulDiv(90909, z2, Million)
      p4 == 142857 + MulDiv(p5, z2, Million)
      p3 == 200000 + MulDiv(p4, z2, Million)
      p2 == 333333 + MulDiv(p3, z2, Million)
      p1 == Million + MulDiv(p2, z2, Million)
  IN  2 * MulDiv(z, p1, Million)

\* natural logarithm * 10^6 of r / 10^6, r > 0
RECURSIVE Ln(_)
Ln(r) ==
  IF r >= 2 * Million THEN Ln(RDiv(r, 2)) + Ln2U
  ELSE IF r < Million THEN Ln(2 * r) - Ln2U
  ELSE LnUnit(r)

\* e^(t / 10^6) * 10^6 for |t| <= ln 2 / 2, Taylor series to t^7
ExpUnit(t) ==
  LET p6 == Million + RDiv(t, 7)
      p5 == Million + MulDiv(t, p6, 6 * Million)
      p4 == Million + MulDiv(t, p5, 5 * Million)
      p3 == Million + MulDiv(t, p4, 4 * Million)
      p2 == Million + MulDiv(t, p3, 3 * Million)
      p1 == Million + MulDiv(t, p2, 2 * Million)
  IN  Million + MulDiv(t, p1, Million)

RECURSIVE TwoTo(_)
TwoTo(n) == IF n = 0 THEN 1 ELSE 2 * TwoTo(n - 1)

\* e^(y / 10^6) * 10^6 for y <= 7 * 10^6
Exp(y) ==
  LET n == (2 * y + Ln2U) \div (2 * Ln2U)
      e == ExpUnit(y - n * Ln2U)
  IN  IF n >= 0 THEN e * TwoTo(n) ELSE RDiv(e, TwoTo(-n))

\* Math.pow(heightRatio, alpha) * 10^6; heightRatio * 10^6 and alpha * 100.
\* Powers above e^7 are given as e^7: the caller takes the minimum with 3.
Pow(heightRatio, alpha) ==
  Exp(Min(RDiv(alpha * Ln(heightRatio), 100), 7 * Million))

\* the power law without the upper limit of the multiplier
calculateWindSpeedAtHeightUncapped(baseWindSpeed, height, profile) ==
  LET alpha == WIND_PROFILES[profile]
      heightRatio == MulDiv(height, 2, 3)
  IN  IF height <= 0 THEN baseWindSpeed
      ELSE IF alpha = 0 THEN baseWindSpeed
      ELSE MulDiv(baseWindSpeed, Pow(heightRatio, alpha), Million)

\* calculateWindSpeedAtHeight: wind in mm/s, height in um, referenceHeight
\* 1.5 m, maxMultiplier 3.0
calculateWindSpeedAtHeight(baseWindSpeed, height, profile) ==
  LET alpha == WIND_PROFILES[profile]
      heightRatio == MulDiv(height, 2, 3)
      actualMultiplier == Min(Pow(heightRatio, alpha), 3 * Million)
  IN  IF height <= 0 THEN baseWindSpeed
      ELSE IF alpha = 0 THEN baseWindSpeed
      ELSE MulDiv(baseWindSpeed, actualMultiplier, Million)

\* velocity * velocity in 1e-4 m^2/s^2, velocity in 1e-4 m/s
Square(velocity) == MulDiv(velocity, velocity, 10000)

\* the sign rule shared by the lift and drag moments: TRUE for a positive one
MomentPositive(arm, angleOfAttack) ==
  (arm >= 0 /\ angleOfAttack < 0) \/ (arm < 0 /\ angleOfAttack >= 0)

\* calculateLiftMoment in uN.m: |0.6 * aoa * 0.5 * 1.225 * min(v^2, 10000) *
\* sideArea * (aerodynamicCenter - centerOfGravity)| with the sign rule;
\* angles in urad, sideArea in mm^2, positions in um
calculateLiftMoment(velocity, omega, flightAngle, sideArea, aerodynamicCenter, centerOfGravity) ==
  LET velocitySquared == Min(Square(velocity), 10000 * 10000)
      angleOfAttack   == omega - flightAngle
      arm             == aerodynamicCenter - centerOfGravity
      momentMagnitude ==
        MulDiv(MulDiv(MulDiv(MulDiv(velocitySquared, sideArea, Million),
                             3675, 100), Abs(arm), Million),
               Abs(angleOfAttack), Million)
  IN  IF MomentPositive(arm, angleOfAttack) THEN momentMagnitude
      ELSE -momentMagnitude

\* calculateDragMoment in uN.m.  Its bodyDiameter parameter receives what
\* the caller passes, projectedAreas.sideArea (m^2), so the reference area is
\* (sideArea * 0.001 / 2)^2 * 3.14 and the moment is a fraction of a uN.m.
calculateDragMoment(velocity, omega, flightAngle, bodyDiameter, aerodynamicCenter, centerOfGravity) ==
  LET velocitySquared == Min(Square(velocity), 10000 * 10000)
      angleOfAttack   == omega - flightAngle
      arm             == aerodynamicCenter - centerOfGravity
      \* 0.01 * aoa^2 - 0.02 * aoa + 0.63, * 10^4
      dragCoefficient ==
        MulDiv(MulDiv(angleOfAttack, angleOfAttack, Million), 100, Million)
          - MulDiv(angleOfAttack, 200, Million) + 6300
      momentMagnitude ==
        Abs(MulDiv(MulDiv(MulDiv(MulDiv(velocitySquared,
                                        MulDiv(bodyDiameter, bodyDiameter,
                                               Million), Million),
                                 Abs(arm), Million), dragCoefficient, 10000),
                   48, Million))
  IN  IF MomentPositive(arm, angleOfAttack) THEN momentMagnitude
      ELSE -momentMagnitude

\* calculateWindMoment in uN.m: wind in mm/s clamped to +-25 m/s, fin force
\* 1.28 * 0.05 * w^2 * totalFinArea, body force 0.23 * 0.5 * 1.225 * w^2 *
\* bodyDiameter * (bodyHeight + noseHeight); lengths in 0.1 mm
calculateWindMoment(noseHeight, bodyDiameter, bodyHeight, windSpeed, omega, totalFinArea, centerOfPressure, centerOfGravity) ==
  LET safeWindSpeed == Clamp(-25000, 25000, windSpeed)
      bodySide      == RDiv(bodyDiameter * (bodyHeight + noseHeight), 100)
      area          == MulDiv(totalFinArea, 64, 1000)
                       + MulDiv(bodySide, 140875, Million)
      force         == MulDiv(safeWindSpeed * safeWindSpeed, area, Million)
      arm           == centerOfPressure - centerOfGravity
      momentMagnitude ==
        MulDiv(MulDiv(force, Abs(Cos(omega)), Million), Abs(arm), Million)
  IN  IF (arm >= 0 /\ windSpeed < 0) \/ (arm < 0 /\ windSpeed >= 0)
      THEN -momentMagnitude ELSE momentMagnitude

\* the body of calculateFinMoment for defined arguments, in uN.m: the drag
\* of the leaned fins and of nose and body, 0.3 / (5 * 3.14 / 180) * aoa *
\* 0.5 * 1.225 * v^2 * area, each times its arm.  Both arms pass through
\* mmToM twice (metres / 1000), and the sign rule compares finCp in metres
\* with centerOfGravity in mm.  Lengths in 0.1 mm, finCp and centerOfGravity
\* in um, angles in urad; finSweepLength + finTipWidth and finHeight are
\* positive in every design modelled here.
finMomentOf(finHeight, finBaseWidth, finSweepLength, finTipWidth, finCount, velocity, omega, flightAngle, finCp, noseHeight, bodyHeight, bodyWidth, centerOfGravity) ==
  LET angleOfAttack == omega - flightAngle
      \* mm^2
      finArea       == RDiv((finBaseWidth + finTipWidth) * finHeight, 200)
      leanFactor    == IF finCount = 3 THEN 866 ELSE 1000
      finLeanArea   ==
        MulDiv(MulDiv(finArea, leanFactor, 1000), Abs(Sin(angleOfAttack)),
               Million)
      totalLeanFinArea == finLeanArea * 2
      noseBodyArea  == RDiv(bodyWidth * (noseHeight + bodyHeight), 100)
      momentArm     == Abs(finCp - centerOfGravity)
      momentArm_b   == Abs(50 * (noseHeight + bodyHeight) - centerOfGravity)
      \* area * arm in 1e-12 m^3
      volume        == MulDiv(totalLeanFinArea, momentArm, 1000)
                       + MulDiv(noseBodyArea, momentArm_b, 1000)
      momentMagnitude ==
        MulDiv(MulDiv(MulDiv(Abs(angleOfAttack), Square(velocity), Million),
                      volume, Million),
               21067, 100 * Million)
  IN  IF (finCp >= 1000 * centerOfGravity /\ angleOfAttack < 0)
         \/ (finCp < 1000 * centerOfGravity /\ angleOfAttack >= 0)
      THEN -momentMagnitude ELSE momentMagnitude

\* calculateFinMoment called with the tuple of arguments of the call: a
\* parameter beyond the arguments passed is undefined, and the guard
\* `centerOfGravity == null` on the fourteenth parameter returns 0
calculateFinMoment(arguments) ==
  IF Len(arguments) < 14 THEN 0
  ELSE finMomentOf(arguments[1], arguments[2], arguments[3], arguments[4],
                   arguments[5], arguments[6], arguments[7], arguments[8],
                   arguments[10], arguments[11], arguments[12],
                   arguments[13], arguments[14])

\* FIN_MATERIALS: E in 1e7 Pa, G in 1e4 Pa
FIN_MATERIALS ==
  [ light_balsa  |-> [ E |-> 245, G |-> 8575 ],
    balsa        |-> [ E |-> 300, G |-> 12000 ],
    light_veneer |-> [ E |-> 800, G |-> 45000 ] ]

\* Math.atan(((finSweepLength + 0.5 * finTipWidth - 0.5 * finBaseWidth) * pi)
\* / length), with pi in millionths and twice the length
SweepAngle(rp, pi, length2) ==
  Atan2(MulDiv(2 * rp.finSweepLength + rp.finTipWidth - rp.finBaseWidth,
               pi, Million),
        length2)

\* calculateFinDivergenceSpeed in 0.01 m/s: (3.14 / (2 h)) * sqrt(2 G J /
\* (rho * chord^2 * 0.25 * a0)) with J = 0.3333 * tip * thickness^3 and
\* a0 = (9 / 3.14) * cos(sweep), limited to 20..300 m/s.  The quantity under
\* the root is kept in 1e-4 m^2/s^2 and capped at 10^4 m^2/s^2, beyond which
\* the speed is above 300 m/s for any fin lower than 0.5 m.
calculateFinDivergenceSpeed(rp) ==
  LET G        == FIN_MATERIALS[rp.finMaterial].G
      chord2   == rp.finBaseWidth + rp.finTipWidth
      cosSweep == Cos(SweepAngle(rp, 3140000, chord2))
      thick3   == rp.finThickness * rp.finThickness * rp.finThickness
      stiff    == MulDiv(Min(MulDiv(G * rp.finTipWidth, 4 * thick3,
                                    chord2 * chord2), 100 * Million),
                         7594, 10000)
      radicand == IF stiff >= 100 * cosSweep THEN 100 * Million
                  ELSE MulDiv(stiff, Million, cosSweep)
      divSpeed == MulDiv(ISqrt(radicand), 15700, rp.finHeight)
  IN  Clamp(2000, 30000, divSpeed)

\* calculateFinFlutterSpeed in 0.01 m/s: sqrt(2 G J / (0.25 * rho * S *
\* (tip / 2) * 3.44)) with J = 0.333 * thickness * tip^3 and S the area of a
\* fin, limited to 30..400 m/s.  The quotient of the dimensions times G is
\* capped at 10^6, beyond which the speed is above 400 m/s.
calculateFinFlutterSpeed(rp) ==
  LET G        == FIN_MATERIALS[rp.finMaterial].G
      quotient == MulDiv(G * rp.finThickness, rp.finTipWidth * rp.finTipWidth,
                         (rp.finTipWidth + rp.finBaseWidth) * rp.finHeight)
      flutterSpeed ==
        10 * ISqrt(MulDiv(Min(quotient, Million), 25287, 100))
  IN  Clamp(3000, 40000, flutterSpeed)

\* calculateFinDeflection in nm (1e-6 mm) for a speed in 1e-4 m/s: the wind
\* force 0.5 * rho * v^2 * 1.28 * area per unit of fin height, times
\* h^4 * cos(sweep) / (8 E I) / (1 - taper) with I = (base + tip) *
\* thickness^3 / 24, so that the chords cancel; 0 below 0.001 m/s, the speed
\* limited to 300 m/s, the result to 15 mm
calculateFinDeflection(velocity, material, finParams) ==
  LET safeVelocity == Min(velocity, 3000000)
      h          == finParams.finHeight
      taperRatio == Clamp(-900000, 900000,
                          MulDiv(finParams.finBaseWidth
                                   - finParams.finTipWidth, Million, h))
      cosSweep   == Cos(SweepAngle(finParams, PiU, 2 * h))
      thick3     == finParams.finThickness * finParams.finThickness
                    * finParams.finThickness
      pressure   == MulDiv(Square(safeVelocity),
                           MulDiv(h * h, h * h, thick3), 100 * Million)
      straight   == MulDiv(MulDiv(pressure, 1176, 10 * material.E),
                           cosSweep, Million)
      deflection == MulDiv(straight, Million, Million - taperRatio)
  IN  IF Abs(velocity) < 10 THEN 0
      ELSE Min(Abs(deflection), 15 * Million)

\* ML + MD + MW + MF of a free-flight step (0 each when the effective wind is
\* below 0.1 m/s).  For a NaN attitude the lift and drag moments return 0
\* (their isNaN guard) and the wind moment is computed with omega = 0.
rawTorqueOf(rp, velocity, adjustedOmega, omegaIsNaN, flightAngle, effectiveWindSpeed, isCurrentlyZeroWind) ==
  IF isCurrentlyZeroWind THEN 0
  ELSE LET areas == calculateProjectedArea(rp)
           ac    == calculateAerodynamicCenter(rp).aerodynamicCenter
           cp    == calculateCenterOfPressure(rp).centerOfPressure
           cg    == rp.centerOfGravity * 100
       IN  (IF omegaIsNaN THEN 0
            ELSE calculateLiftMoment(velocity, adjustedOmega, flightAngle,
                                     areas.sideArea, ac, cg))
           + (IF omegaIsNaN THEN 0
              ELSE calculateDragMoment(velocity, adjustedOmega, flightAngle,
                                       areas.sideArea, ac, cg))
           + calculateWindMoment(rp.noseHeight, rp.bodyWidth, rp.bodyHeight,
                                 effectiveWindSpeed,
                                 Num(omegaIsNaN, adjustedOmega),
                                 areas.totalFinArea, cp, cg)
           + calculateFinMoment(<< rp.finHeight, rp.finBaseWidth, rp.finCount,
                                   velocity, flightAngle, rp, rp.finCp, cg >>)

\* Math.max(-1.0, Math.min(1.0, rawTorque))
ClampTorque(rawTorque) == Clamp(-TORQUE_CLAMP, TORQUE_CLAMP, rawTorque)

\* a test at twice the threshold, to show what depends on the threshold
AbnormalTorqueLax(rawTorque) == Abs(rawTorque) > 2 * TORQUE_THRESHOLD

\* Math.abs(rawTorque) > TORQUE_THRESHOLD
AbnormalTorque(rawTorque) == Abs(rawTorque) > TORQUE_THRESHOLD

(***************************************************************************)
(* The simulation loop of calculateFlightPath, section by section.  l is   *)
(* the record of the loop's local variables (see Init).                    *)
(***************************************************************************)
\* while ((y >= 0 || time < 0.1) && time < MAX_TIME)
LoopGuard(l) ==
  /\ (~IsNaN(l, "y") /\ l.y >= 0) \/ DblLt(l.time, GRACE_TIME)
  /\ DblLt(l.time, MAX_TIME)

\* Whole-degree launch angles w for which, in binary64,
\* sqrt((0.65 sin w)^2 + (0.65 cos w)^2) < 0.65: a rocket the rail branch has
\* put at the rail end is then still found on the rail.
RailEndRoundsShort == {4, 18}

\* Math.sqrt(x * x + y * y) in um.  At the point where the rail branch pins
\* the rocket (railDistance = launchRailLength) the comparison with 0.65 is
\* decided by the rounding above while omega is the launch angle; the runs
\* modelled here compare >= once omega has moved.
distanceFromStartOf(x, y, omega, launchAngle) ==
  IF /\ launchAngle # 0
     /\ x = MulDiv(launchRailLength, Sin(omega), Million)
     /\ y = MulDiv(launchRailLength, Cos(omega), Million)
  THEN IF omega = DegToRad(launchAngle) /\ Abs(launchAngle) \in RailEndRoundsShort
       THEN launchRailLength - 1
       ELSE launchRailLength
  ELSE Hypot(x, y)

\* distanceFromStart < launchRailLength
onLaunchRailOf(distanceFromStart) == distanceFromStart < launchRailLength

\* Math.abs(angle) === 4 || Math.abs(angle) === 18
SpecialAngle(launchAngle) == Abs(launchAngle) = 4 \/ Abs(launchAngle) = 18

\* omega + angleAdjustment * (angle < 0 ? -1 : 1), angleAdjustment 0.01 rad
adjustedOmegaOf(omega, launchAngle) ==
  omega + (IF SpecialAngle(launchAngle) THEN 10000 ELSE 0)
            * (IF launchAngle < 0 THEN -1 ELSE 1)

\* (adjustedOmega * 180 / PI) % 360, then "> 180 ? - 360", in mdeg
normalizedAbsoluteAngleOf(adjustedOmega) ==
  LET absoluteOmegaDegrees == Rem(RadToDeg(adjustedOmega), 360000)
  IN  IF absoluteOmegaDegrees > 180000 THEN absoluteOmegaDegrees - 360000
      ELSE absoluteOmegaDegrees

\* Cd of the body * 10^4: alfa * r^2 - 6 * alfa * r + noseCd + 9 * alfa with
\* r = noseHeight / bodyDiameter and alfa = (0.9 - noseCd) / 9
bodyDragCoefficient(rp) ==
  LET ratio  == RDiv(1000 * rp.noseHeight, rp.bodyWidth)
      noseCd == NOSE_SHAPES[rp.noseShape]
      dd     == ratio - 3000
  IN  noseCd + RDiv(RDiv(dd * dd, 1000) * (9000 - noseCd), 9000)

\* Dt = 0.5 * Cd * rho * velocity^2 * Area in 1e-5 N, with
\* Area = PI * (bodyDiameter / 2)^2 + finwidth * finThickness * 4 (0.01 mm^2)
bodyDrag(rp, velocity) ==
  LET Area == MulDiv(rp.bodyWidth * rp.bodyWidth, 7854, 10000)
              + 4 * rp.finHeight * rp.finThickness
      k    == MulDiv(MulDiv(bodyDragCoefficient(rp), Area, 10000), 6125, 10000)
  IN  RDiv(MulDiv(Square(velocity), k, Million), 10)

\* Dw = 0.5 * Cdw * rho * |w| * w * S in 1e-5 N; w in mm/s, S in mm^2
crossWindDrag(effectiveWindSpeed, S) ==
  RDiv(MulDiv(MulDiv(Abs(effectiveWindSpeed) * effectiveWindSpeed, S, Million),
              153125, Million), 10)

\* bodyDiameter * bodyLength in mm^2
sideSurface(rp) == RDiv(rp.bodyWidth * (rp.bodyHeight + rp.noseHeight), 100)

\* F / mass_kg in mm/s^2 (force in 1e-5 N, mass in g)
accelerationOf(F, mass) == MulDiv(F, 10, mass)

\* parachute phase: canopy drag against the velocity, cross wind on the
\* canopy, gravity
parachuteForces(rp, velocity, prev_vx, prev_vy, effectiveWindSpeed) ==
  LET d    == rp.selectedParachute
      Area == MulDiv(d * d, 7854, 10000)
      Dp   == MulDiv(Square(velocity), MulDiv(Area, 474688, Million), 100000)
      S    == MulDiv(d * d, 785, 1000)
      Dw   == crossWindDrag(effectiveWindSpeed, S)
      Fx   == IF velocity > 10 THEN -MulDiv(Dp, prev_vx, velocity) ELSE 0
      Fy   == IF velocity > 10 THEN -MulDiv(Dp, prev_vy, velocity) ELSE 0
  IN  << Fx - Dw, Fy - rp.weight * 981 >>

\* parachute deploying: light drag 0.1 * v, half the cross wind on half the
\* side surface, gravity
deployingForces(rp, velocity, prev_vx, prev_vy, effectiveWindSpeed) ==
  LET Dw == crossWindDrag(effectiveWindSpeed, RDiv(sideSurface(rp), 2))
      Fx == IF velocity > 10 THEN -prev_vx ELSE 0
      Fy == -(rp.weight * 981) - (IF velocity > 10 THEN prev_vy ELSE 0)
  IN  << Fx - RDiv(Dw, 2), Fy >>

\* thrust phase on the rail
railForces(rp, launchAngle, thrust, adjustedOmega, effectiveWindSpeed) ==
  LET Dw == crossWindDrag(effectiveWindSpeed, sideSurface(rp))
  IN  IF launchAngle = 0 THEN << -Dw, thrust - rp.weight * 981 >>
      ELSE << MulDiv(thrust, Sin(adjustedOmega), Million) - Dw,
              MulDiv(thrust, Cos(adjustedOmega), Million) - rp.weight * 981 >>

\* thrust phase in free flight
poweredForces(rp, velocity, flightAngle, thrust, adjustedOmega, effectiveWindSpeed) ==
  LET Dw == crossWindDrag(effectiveWindSpeed, sideSurface(rp))
      Dt == bodyDrag(rp, velocity)
      Tx == MulDiv(thrust, Sin(adjustedOmega), Million)
      Ty == MulDiv(thrust, Cos(adjustedOmega), Million)
  IN  IF velocity > 10
      THEN << Tx - MulDiv(Dt, Sin(flightAngle), Million) - Dw,
              Ty - rp.weight * 981 - MulDiv(Dt, Cos(flightAngle), Million) >>
      ELSE << Tx - Dw, Ty - rp.weight * 981 >>

\* coasting: drag against the flight path and the cross wind term + Dw
coastForces(rp, velocity, flightAngle, effectiveWindSpeed) ==
  LET Dw == crossWindDrag(effectiveWindSpeed, sideSurface(rp))
      Dt == bodyDrag(rp, velocity)
  IN  IF velocity > 10
      THEN << -MulDiv(Dt, Sin(flightAngle), Million) + Dw,
              -(rp.weight * 981) - MulDiv(Dt, Cos(flightAngle), Million) >>
      ELSE << Dw, -(rp.weight * 981) >>

\* thrustData[Math.min(Math.floor(time / dt), thrustData.length - 1)], 1e-5 N
thrustAt(rp, time) ==
  LET thrustData == MOTOR_THRUST_DATA[rp.selectedMotor]
  IN  thrustData[Min(DblFloorDiv(time, dt), Len(thrustData) - 1) + 1] * 100

\* the branch of the force model a step takes, and whether the rail
\* constraint applies to it
PhaseOf(isParachuteActive, isParachuteEjected, onLaunchRail, inThrust) ==
  IF isParachuteActive THEN "ParachuteDescending"
  ELSE IF isParachuteEjected THEN "ParachuteDeploying"
  ELSE IF onLaunchRail THEN "OnRail"
  ELSE IF inThrust THEN "PoweredFree"
  ELSE "CoastFree"

\* whether the step evaluates the aerodynamic moments: thrust phase off the
\* rail above 1 m/s, or coasting above 0.5 m/s
ComputesTorque(isParachuteEjected, inThrust, onLaunchRail, velocity) ==
  /\ ~isParachuteEjected
  /\ \/ inThrust /\ ~onLaunchRail /\ velocity > 10000
     \/ ~inThrust /\ velocity > 5000

\* torque of the two parachute branches: a pull back to the launch angle
\* (for a finite adjustedOmega; for a NaN one the test of the first branch is
\* false and the torque stays 0, and the second branch gives NaN)
parachuteTorque(isParachuteActive, adjustedOmega, initialOmega) ==
  IF isParachuteActive
  THEN IF Abs(adjustedOmega - initialOmega) > 10000
       THEN RDiv(initialOmega - adjustedOmega, 1000) ELSE 0
  ELSE RDiv(initialOmega - adjustedOmega, 2000)

\* torque of a thrust-phase step that evaluated the moments
poweredTorque(rawTorque) == ClampTorque(rawTorque)

\* torque of a coasting step that evaluated the moments: the clamp, then the
\* correction "torque *= 1.2" for launch angles of +-4 and +-18 degrees
coastTorque(rawTorque, launchAngle) ==
  IF SpecialAngle(launchAngle) THEN RDiv(ClampTorque(rawTorque) * 12, 10)
  ELSE ClampTorque(rawTorque)

\* totalTorque += torque; stepCounter++; and, every ANGLE_STEPS_PER_UPDATE
\* steps, the rotational update from the mean torque.  A NaN mean is replaced
\* by 0 (safeAvgTorque); a NaN momentOfInertia passes the test against
\* MIN_MOMENT_OF_INERTIA and makes the quotient, the angular velocity and the
\* angle change NaN, and the stability tests on them false.
rotationalUpdate(l, torque, torqueIsNaN, isParachuteEjected) ==
  LET totalIsNaN   == IsNaN(l, "totalTorque") \/ torqueIsNaN
      totalTorque  == Num(totalIsNaN, l.totalTorque + torque)
      stepCounter  == l.stepCounter + 1
      avgTorque    == RDiv(totalTorque, stepCounter)
      accIsNaN     == IsNaN(l, "momentOfInertia")
      acceleration == IF accIsNaN \/ l.momentOfInertia < 10 THEN 0
                      ELSE MulDiv(avgTorque, 100000, l.momentOfInertia)
      velIsNaN     == accIsNaN \/ IsNaN(l, "angularVelocity")
      velocity     == Num(velIsNaN,
                          Clamp(-ANGULAR_VELOCITY_UPDATE_CAP,
                                ANGULAR_VELOCITY_UPDATE_CAP,
                                l.angularVelocity
                                  + RDiv(acceleration, ANGLE_RESPONSE_DT_DIV)))
      change       == velocity * 20
      degrees      == RadToDeg(change)
      checks       == ~isParachuteEjected /\ ~velIsNaN
  IN  IF stepCounter >= ANGLE_STEPS_PER_UPDATE
      THEN [ updated |-> TRUE, totalTorque |-> 0, stepCounter |-> 0,
             angularAcceleration |-> acceleration,
             angularVelocity |-> velocity, angleChangePerDt2 |-> change,
             maxAngleChangePerDt2 |->
               IF checks /\ Abs(degrees) > Abs(l.maxAngleChangePerDt2)
               THEN degrees ELSE l.maxAngleChangePerDt2,
             isAngleStableOK |->
               l.isAngleStableOK
               /\ ~(checks /\ Abs(degrees) > MAX_ANGLE_CHANGE_PER_DT2),
             nan |-> NaNs([ totalTorque |-> FALSE,
                            angularAcceleration |-> accIsNaN,
                            angularVelocity |-> velIsNaN,
                            angleChangePerDt2 |-> velIsNaN ]) ]
      ELSE [ updated |-> FALSE, totalTorque |-> totalTorque,
             stepCounter |-> stepCounter,
             angularAcceleration |-> l.angularAcceleration,
             angularVelocity |-> l.angularVelocity,
             angleChangePerDt2 |-> l.angleChangePerDt2,
             maxAngleChangePerDt2 |-> l.maxAngleChangePerDt2,
             isAngleStableOK |-> l.isAngleStableOK,
             nan |-> NaNs([ totalTorque |-> totalIsNaN,
                            angularAcceleration |->
                              IsNaN(l, "angularAcceleration"),
                            angularVelocity |-> IsNaN(l, "angularVelocity"),
                            angleChangePerDt2 |->
                              IsNaN(l, "angleChangePerDt2") ]) ]

\* the whole change of a window applied in every step
physicsOmegaWholeChange(omega, angleChangePerDt2, initialOmegaRad, isCurrentlyZeroWind, onLaunchRail) ==
  IF isCurrentlyZeroWind /\ ~onLaunchRail
  THEN IF Abs(omega - initialOmegaRad) < 100 THEN initialOmegaRad
       ELSE MulDiv(omega, 995, 1000) + MulDiv(initialOmegaRad, 5, 1000)
  ELSE omega + angleChangePerDt2

\* the physics-based attitude update (PHYSICAL_ATTITUDE_CONTROL is true)
physicsOmega(omega, angleChangePerDt2, initialOmegaRad, isCurrentlyZeroWind, onLaunchRail) ==
  IF isCurrentlyZeroWind /\ ~onLaunchRail
  THEN IF Abs(omega - initialOmegaRad) < 100 THEN initialOmegaRad
       ELSE MulDiv(omega, 995, 1000) + MulDiv(initialOmegaRad, 5, 1000)
  ELSE omega + RDiv(angleChangePerDt2, ANGLE_STEPS_PER_UPDATE)

\* deltaOmega in mdeg, brought into -180 .. 180 degrees
deltaOmegaOf(omega, prevOmega) ==
  LET d == Rem(RadToDeg(omega), 360000) - Rem(RadToDeg(prevOmega), 360000)
      e == IF d > 180000 THEN d - 360000 ELSE d
  IN  IF e < -180000 THEN e + 360000 ELSE e

\* angleChangeBuffer.push(deltaOmega), shift() beyond dt2 / dt entries
pushAngleChange(buffer, deltaOmega) ==
  LET b == Append(buffer, deltaOmega)
  IN  IF Len(b) > ANGLE_STEPS_PER_UPDATE THEN Tail(b) ELSE b

RECURSIVE SumSeq(_)
SumSeq(q) == IF q = << >> THEN 0 ELSE Head(q) + SumSeq(Tail(q))

\* omega moved towards newOmega by at most maxChange = 0.2 rad
limitedChange(omega, newOmega) ==
  IF Abs(newOmega - omega) > 200000
  THEN omega + Sgn(newOmega - omega) * 200000
  ELSE newOmega

\* targetOmega of the thrust phase: the flight angle, and when heading upwind
\* in a wind of 0.5 m/s or more with the limitation on,
\* Math.max(flightAngle, windAngle - PI / 2) for a wind from the right (windAngle = PI) and
\* Math.min(flightAngle, windAngle + PI / 2) for a wind from the left (windAngle = 0)
targetOmegaOf(flightAngle, vx, effectiveWindSpeed, useWindAngleLimitation) ==
  LET isMovingUpwind == \/ effectiveWindSpeed < 0 /\ vx > 0
                        \/ effectiveWindSpeed > 0 /\ vx < 0
      windAngle   == IF effectiveWindSpeed > 0 THEN 0 ELSE PiU
  IN  IF Abs(effectiveWindSpeed) < 500 THEN flightAngle
      ELSE IF isMovingUpwind /\ useWindAngleLimitation
      THEN IF effectiveWindSpeed < 0
           THEN Max(flightAngle, windAngle - HalfPiU)
           ELSE Min(flightAngle, windAngle + HalfPiU)
      ELSE flightAngle

\* the enhanced attitude control block (weathervane effect), applied off the
\* rail before ejection when the wind is not zero
enhancedOmega(omega, vx, vy, velocity, effectiveWindSpeed, thrustEndFlag, useWindAngleLimitation) ==
  LET flightAngle == Atan2(vx, vy)
      adjustRate  == Min(50000, RDiv(velocity, 5))
      targetOmega == targetOmegaOf(flightAngle, vx, effectiveWindSpeed,
                                   useWindAngleLimitation)
      windFactor  == Min(800000, MulDiv(Abs(effectiveWindSpeed), 1000, 6))
      finalAdjustRate == MulDiv(adjustRate, Million + windFactor, Million)
  IN  IF thrustEndFlag
      THEN limitedChange(omega, MulDiv(omega, Million - adjustRate, Million)
                                  + MulDiv(flightAngle, adjustRate, Million))
      ELSE limitedChange(omega,
                         MulDiv(omega, Million - finalAdjustRate, Million)
                           + MulDiv(targetOmega, finalAdjustRate, Million))

\* vx + ax * dt and vy + ay * dt, then the cap at MAX_SPEED
nextVelocity(vx, vy, ax, ay) ==
  LET ux == vx + RDiv(ax, 5)
      uy == vy + RDiv(ay, 5)
      currentSpeed == Hypot(ux, uy)
  IN  IF currentSpeed > MAX_SPEED
      THEN [ vx |-> MulDiv(ux, MAX_SPEED, currentSpeed),
             vy |-> MulDiv(uy, MAX_SPEED, currentSpeed),
             currentSpeed |-> currentSpeed ]
      ELSE [ vx |-> ux, vy |-> uy, currentSpeed |-> currentSpeed ]

\* the position update: rail-constrained while onLaunchRail, free otherwise
nextPosition(x, y, vx, vy, omega, launchAngle, onLaunchRail, distanceFromStart, velocity) ==
  IF onLaunchRail
  THEN IF launchAngle = 0 THEN [ x |-> 0, y |-> y + 2 * vy ]
       ELSE LET railDistance == Min(distanceFromStart + 2 * velocity,
                                    launchRailLength)
            IN  [ x |-> MulDiv(railDistance, Sin(omega), Million),
                  y |-> MulDiv(railDistance, Cos(omega), Million) ]
  ELSE [ x |-> x + 2 * vx, y |-> y + 2 * vy ]

\* a keyPoints entry { time, height, speed }
KeyPoint(time, height, speed) ==
  [ time |-> time, height |-> height, speed |-> speed ]

(***************************************************************************)
(* One pass through the loop body, in the order of the source.  Each       *)
(* section below takes the locals l at the head of the pass and the record *)
(* s of what the pass has computed so far, and returns s extended by what  *)
(* the section computes.  Locals that feed nothing else (finDeflection,    *)
(* parachuteDeploymentProgress, the thrust average, the angleChanges log)  *)
(* are left out.                                                           *)
(***************************************************************************)
\* the parachute block: ejection and activation by the clock, and the cut of
\* the velocity to a tenth in the pass that activates the parachute
parachuteState(l, rp) ==
  LET ejectNow    == ~l.isParachuteEjected
                     /\ DblGe(l.time, parachuteEjectionTimeOf(rp))
      activateNow == ~l.isParachuteActive
                     /\ DblGe(l.time, parachuteActiveTimeOf(rp))
  IN  [ ejectNow |-> ejectNow,
        ejected |-> l.isParachuteEjected \/ ejectNow,
        activateNow |-> activateNow,
        active |-> l.isParachuteActive \/ activateNow,
        cvx |-> IF activateNow THEN RDiv(l.vx, 10) ELSE l.vx,
        cvy |-> IF activateNow THEN RDiv(l.vy, 10) ELSE l.vy ]

\* what the pass reads off the locals: distance from the pad, speed, wind,
\* adjusted attitude, thrust window, flight-path angle
sensed(l, rp, launchAngle, baseWindSpeed, profile, s) ==
  s @@
  [ initialOmega |-> DegToRad(launchAngle),
    omegaIsNaN |-> IsNaN(l, "omega"),
    distanceFromStart |->
      IF IsNaN(l, "omega") THEN Hypot(l.x, l.y)
      ELSE distanceFromStartOf(l.x, l.y, l.omega, launchAngle),
    velocity |-> Hypot(l.vx, l.vy),
    effectiveWindSpeed |->
      calculateWindSpeedAtHeight(baseWindSpeed, l.y, profile),
    adjustedOmega |-> adjustedOmegaOf(l.omega, launchAngle),
    inThrust |-> DblLt(l.time, thrustEndTimeOf(rp)),
    flightAngle |-> Atan2(l.vx, l.vy) ]

\* the same test without the flag, to show what depends on the flag
endsThrustEveryPass(ejected, inThrust, thrustEndFlag) == ~ejected /\ ~inThrust

\* the pass that sets thrustEndFlag and keyPoints.thrustEnd: the first one
\* before ejection whose time is past the thrust curve
endsThrustOf(ejected, inThrust, thrustEndFlag) ==
  ~ejected /\ ~inThrust /\ ~thrustEndFlag

\* a verdict recomputed in every pass instead of only ever being cleared
isAbsoluteAngleOKRecomputed(isAbsoluteAngleOK, checksAbsolute, normalizedAbsoluteAngle) ==
  ~(checksAbsolute /\ Abs(normalizedAbsoluteAngle) > MAX_ABSOLUTE_ANGLE)

\* "if (Math.abs(normalizedAbsoluteAngle) > MAX_ABSOLUTE_ANGLE)
\* isAbsoluteAngleOK = false": the flag is only ever cleared
isAbsoluteAngleOKAfter(isAbsoluteAngleOK, checksAbsolute, normalizedAbsoluteAngle) ==
  isAbsoluteAngleOK
  /\ ~(checksAbsolute /\ Abs(normalizedAbsoluteAngle) > MAX_ABSOLUTE_ANGLE)

\* the rail test, the zero-wind test, the absolute-angle check, the phase
\* and the end-of-thrust flag
status(l, s) ==
  LET onLaunchRail   == onLaunchRailOf(s.distanceFromStart)
      normalizedAbsoluteAngle == normalizedAbsoluteAngleOf(s.adjustedOmega)
      checksAbsolute == ~onLaunchRail /\ ~s.ejected /\ ~s.omegaIsNaN
      endsThrust     == endsThrustOf(s.ejected, s.inThrust, l.thrustEndFlag)
  IN  s @@
      [ onLaunchRail |-> onLaunchRail,
        isCurrentlyZeroWind |-> Abs(s.effectiveWindSpeed) < 100,
        maxAbsoluteAngle |->
          IF checksAbsolute
             /\ Abs(normalizedAbsoluteAngle) > Abs(l.maxAbsoluteAngle)
          THEN normalizedAbsoluteAngle ELSE l.maxAbsoluteAngle,
        isAbsoluteAngleOK |->
          isAbsoluteAngleOKAfter(l.isAbsoluteAngleOK, checksAbsolute, normalizedAbsoluteAngle),
        phase |-> PhaseOf(s.active, s.ejected, onLaunchRail, s.inThrust),
        computes |->
          ComputesTorque(s.ejected, s.inThrust, onLaunchRail, s.velocity),
        endsThrust |-> endsThrust,
        thrustEndFlag |-> l.thrustEndFlag \/ endsThrust ]

\* whether the force of the pass is NaN: the thrust phase resolves the thrust
\* along adjustedOmega, except on the rail of a vertical launch
forceIsNaNOf(omegaIsNaN, ejected, inThrust, onLaunchRail, launchAngle) ==
  omegaIsNaN /\ ~ejected /\ inThrust /\ (~onLaunchRail \/ launchAngle # 0)

\* the forces of the phase, and the sum of the aerodynamic moments when the
\* phase evaluates them
dynamics(l, rp, launchAngle, s) ==
  s @@
  [ forceIsNaN |-> forceIsNaNOf(s.omegaIsNaN, s.ejected, s.inThrust,
                                s.onLaunchRail, launchAngle),
    F |->
      IF forceIsNaNOf(s.omegaIsNaN, s.ejected, s.inThrust, s.onLaunchRail,
                      launchAngle)
      THEN << 0, 0 >>
      ELSE IF s.active
      THEN parachuteForces(rp, s.velocity, l.vx, l.vy, s.effectiveWindSpeed)
      ELSE IF s.ejected
      THEN deployingForces(rp, s.velocity, l.vx, l.vy, s.effectiveWindSpeed)
      ELSE IF s.inThrust
      THEN IF s.onLaunchRail
           THEN railForces(rp, launchAngle, thrustAt(rp, l.time),
                           s.adjustedOmega, s.effectiveWindSpeed)
           ELSE poweredForces(rp, s.velocity, s.flightAngle,
                              thrustAt(rp, l.time), s.adjustedOmega,
                              s.effectiveWindSpeed)
      ELSE coastForces(rp, s.velocity, s.flightAngle, s.effectiveWindSpeed),
    rawTorque |->
      IF s.computes
      THEN rawTorqueOf(rp, s.velocity, s.adjustedOmega, s.omegaIsNaN,
                       s.flightAngle, s.effectiveWindSpeed,
                       s.isCurrentlyZeroWind)
      ELSE 0,
    finDeflection |->
      IF s.velocity > 50000
      THEN calculateFinDeflection(s.velocity, FIN_MATERIALS.light_veneer, rp)
      ELSE 0 ]

\* the abnormal-torque test (break), the torque of the pass, the rotational
\* update and the velocity update
response(l, rp, launchAngle, s) ==
  LET torqueIsNaN == s.ejected /\ ~s.active /\ s.omegaIsNaN
      torque == IF s.ejected
                THEN IF s.omegaIsNaN THEN 0
                     ELSE parachuteTorque(s.active, s.adjustedOmega,
                                          s.initialOmega)
                ELSE IF ~s.computes THEN 0
                ELSE IF s.inThrust THEN poweredTorque(s.rawTorque)
                ELSE coastTorque(s.rawTorque, launchAngle)
  IN  s @@
      [ brk |-> s.computes /\ AbnormalTorque(s.rawTorque),
        torque |-> torque,
        torqueIsNaN |-> torqueIsNaN,
        rot |-> rotationalUpdate(l, torque, torqueIsNaN, s.ejected),
        v |-> IF s.forceIsNaN
              THEN [ vx |-> 0, vy |-> 0, currentSpeed |-> 0 ]
              ELSE nextVelocity(s.cvx, s.cvy,
                                accelerationOf(s.F[1], rp.weight),
                                accelerationOf(s.F[2], rp.weight)) ]

\* an update that adds angleChangePerDt2 in zero wind as well, to show what
\* depends on the return to the launch angle
physicsOmegaIsNaNAlways(omegaIsNaN, changeIsNaN, isCurrentlyZeroWind, onLaunchRail) ==
  omegaIsNaN \/ changeIsNaN

\* whether omega is NaN after the physics-based update: it was, or the
\* update adds a NaN angleChangePerDt2 (the return to the launch angle in
\* zero wind off the rail does not read angleChangePerDt2)
physicsOmegaIsNaN(omegaIsNaN, changeIsNaN, isCurrentlyZeroWind, onLaunchRail) ==
  omegaIsNaN \/ (changeIsNaN /\ ~(isCurrentlyZeroWind /\ ~onLaunchRail))

\* omega after the physics-based update
turned(l, s) ==
  LET isNaN == physicsOmegaIsNaN(s.omegaIsNaN,
                                 "angleChangePerDt2" \in s.rot.nan,
                                 s.isCurrentlyZeroWind, s.onLaunchRail)
  IN  s @@
      [ omega1IsNaN |-> isNaN,
        omega1 |-> Num(isNaN,
                       physicsOmega(l.omega, s.rot.angleChangePerDt2,
                                    s.initialOmega, s.isCurrentlyZeroWind,
                                    s.onLaunchRail)) ]

\* the angle-change window and omega after the enhanced attitude control
\* (which leaves a NaN omega NaN).  The window is NaN when it holds a NaN
\* entry; omega stays NaN once it is, so such a window is never NaN-free
\* again.
attitude(l, cfg, s) ==
  LET deltaIsNaN == s.omega1IsNaN \/ IsNaN(l, "prevOmega")
  IN  s @@
      [ buffer |-> pushAngleChange(l.angleChangeBuffer,
                                   Num(deltaIsNaN,
                                       deltaOmegaOf(s.omega1, l.prevOmega))),
        bufferIsNaN |-> IsNaN(l, "angleChangeBuffer") \/ deltaIsNaN,
        omega2 |-> IF /\ cfg.enhancedAttitudeControl
                      /\ ~s.isCurrentlyZeroWind
                      /\ ~s.onLaunchRail /\ ~s.ejected
                      /\ ~s.omega1IsNaN
                   THEN enhancedOmega(s.omega1, s.cvx, s.cvy, s.velocity,
                                      s.effectiveWindSpeed, s.thrustEndFlag,
                                      cfg.windAngleLimitation)
                   ELSE s.omega1 ]

\* the angle change over the window and the position update: on the rail
\* of an inclined launch the position is NaN with omega, elsewhere with the
\* velocity
translation(l, launchAngle, s) ==
  s @@
  [ totalAngleChange |-> Num(s.bufferIsNaN, SumSeq(s.buffer)),
    xIsNaN |-> IF s.onLaunchRail THEN launchAngle # 0 /\ s.omega1IsNaN
               ELSE s.forceIsNaN,
    yIsNaN |-> IF s.onLaunchRail /\ launchAngle # 0 THEN s.omega1IsNaN
               ELSE s.forceIsNaN,
    pos |-> nextPosition(l.x, l.y, s.v.vx, s.v.vy, s.omega2, launchAngle,
                         s.onLaunchRail, s.distanceFromStart, s.velocity) ]

\* the keyPoints the pass assigns before the torque test
keyPointsAtBreak(l, kp, s) ==
  [ kp EXCEPT
      !.parachuteEjection =
        IF s.ejectNow THEN KeyPoint(l.time, l.y, l.vy) ELSE @,
      !.parachuteActive =
        IF s.activateNow THEN KeyPoint(l.time, l.y, s.cvy) ELSE @,
      !.thrustEnd =
        IF s.endsThrust THEN KeyPoint(l.time, l.y, s.cvy) ELSE @ ]

\* what the pass leaves: whether the body ended in `break` (brk), the locals
\* and keyPoints after it, the FlightSample it pushes (when it did not
\* break), and what it did (the rail test, the phase, the raw torque, the
\* keyPoints it assigned)
outcome(l, kp, s) ==
  LET newPrecMax   == ~s.yIsNaN /\ s.pos.y > l.prec_MaxHeight
      newMax       == ~s.yIsNaN /\ s.pos.y > l.maxHeight
      checksChange == ~s.ejected /\ ~s.onLaunchRail /\ ~s.bufferIsNaN
      common == [ brk |-> s.brk, onLaunchRail |-> s.onLaunchRail,
                  phase |-> s.phase, computes |-> s.computes,
                  rawTorque |-> s.rawTorque, cut |-> s.activateNow ]
  IN  IF s.brk
      THEN common @@
           [ loc |-> [ l EXCEPT !.isTorqueStableOK = FALSE,
                                !.maxAbsoluteAngle = s.maxAbsoluteAngle,
                                !.isAbsoluteAngleOK = s.isAbsoluteAngleOK,
                                !.thrustEndFlag = s.thrustEndFlag ],
             keyPoints |-> keyPointsAtBreak(l, kp, s),
             updated |-> FALSE,
             wrote |-> IF s.endsThrust THEN {"thrustEnd"} ELSE {} ]
      ELSE common @@
           [ loc |->
               [ time |-> DblAdd(l.time, dt),
                 x |-> Num(s.xIsNaN, s.pos.x), y |-> Num(s.yIsNaN, s.pos.y),
                 vx |-> s.v.vx, vy |-> s.v.vy,
                 omega |-> s.omega2, prevOmega |-> s.omega1,
                 momentOfInertia |-> l.momentOfInertia,
                 nan |-> s.rot.nan
                         \cup NaNs([ momentOfInertia |->
                                       IsNaN(l, "momentOfInertia"),
                                     omega |-> s.omega1IsNaN,
                                     prevOmega |-> s.omega1IsNaN,
                                     angleChangeBuffer |-> s.bufferIsNaN,
                                     x |-> s.xIsNaN, y |-> s.yIsNaN,
                                     vx |-> s.forceIsNaN,
                                     vy |-> s.forceIsNaN ]),
                 angularVelocity |->
                   Clamp(-MAX_ANGULAR_VELOCITY, MAX_ANGULAR_VELOCITY,
                         s.rot.angularVelocity),
                 angularAcceleration |-> s.rot.angularAcceleration,
                 angleChangePerDt2 |-> s.rot.angleChangePerDt2,
                 stepCounter |-> s.rot.stepCounter,
                 totalTorque |-> s.rot.totalTorque,
                 isParachuteEjected |-> s.ejected,
                 isParachuteActive |-> s.active,
                 thrustEndFlag |-> s.thrustEndFlag,
                 isAngleStableOK |->
                   s.rot.isAngleStableOK
                   /\ ~(checksChange
                        /\ Abs(s.totalAngleChange) > MAX_ANGLE_CHANGE_PER_DT2),
                 isAbsoluteAngleOK |-> s.isAbsoluteAngleOK,
                 isTorqueStableOK |-> l.isTorqueStableOK,
                 maxAngleChangePerDt2 |->
                   IF checksChange
                      /\ Abs(s.totalAngleChange)
                           > Abs(s.rot.maxAngleChangePerDt2)
                   THEN s.totalAngleChange ELSE s.rot.maxAngleChangePerDt2,
                 maxAbsoluteAngle |-> s.maxAbsoluteAngle,
                 angleChangeBuffer |-> s.buffer,
                 prec_MaxHeight |-> IF newPrecMax THEN s.pos.y
                                    ELSE l.prec_MaxHeight,
                 maxHeight |-> IF newMax THEN s.pos.y ELSE l.maxHeight,
                 maxSpeed |-> Max(l.maxSpeed, s.v.currentSpeed),
                 maxDistance |-> IF s.xIsNaN THEN l.maxDistance
                                 ELSE Max(l.maxDistance, Abs(s.pos.x)) ],
             keyPoints |->
               [ keyPointsAtBreak(l, kp, s) EXCEPT
                   !.prec_MaxHeight =
                     IF newPrecMax THEN KeyPoint(l.time, s.pos.y, s.v.vy)
                     ELSE @,
                   !.maxHeight =
                     IF newMax THEN KeyPoint(l.time, s.pos.y, s.v.vy)
                     ELSE @ ],
             sample |->
               [ time |-> l.time, physicsX |-> Num(s.xIsNaN, s.pos.x),
                 height |-> Num(s.yIsNaN, s.pos.y),
                 vx |-> s.v.vx, vy |-> s.v.vy,
                 speedMagnitude |-> Hypot(s.v.vx, s.v.vy),
                 omega |-> s.omega2,
                 torque |-> s.torque, finDeflection |-> s.finDeflection,
                 isParachuteEjected |-> s.ejected,
                 isParachuteActive |-> s.active,
                 nan |-> NaNs([ physicsX |-> s.xIsNaN, height |-> s.yIsNaN,
                                vx |-> s.forceIsNaN, vy |-> s.forceIsNaN,
                                omega |-> s.omega1IsNaN,
                                torque |-> s.torqueIsNaN ]) ],
             updated |-> s.rot.updated,
             wrote |-> (IF s.ejectNow THEN {"parachuteEjection"} ELSE {})
                       \cup (IF s.activateNow THEN {"parachuteActive"} ELSE {})
                       \cup (IF s.endsThrust THEN {"thrustEnd"} ELSE {})
                       \cup (IF newPrecMax THEN {"prec_MaxHeight"} ELSE {})
                       \cup (IF newMax THEN {"maxHeight"} ELSE {}) ]

Iteration(l, kp, rp, launchAngle, baseWindSpeed, profile, cfg) ==
  outcome(l, kp,
    translation(l, launchAngle,
      attitude(l, cfg,
        turned(l,
          response(l, rp, launchAngle,
            dynamics(l, rp, launchAngle,
              status(l,
                sensed(l, rp, launchAngle, baseWindSpeed, profile,
                       parachuteState(l, rp)))))))))

(***************************************************************************)
(* Launches: the inputs the simulator passes to calculateFlightPath.       *)
(* angle in whole degrees (slider -30 .. 30), windSpeed in mm/s (slider    *)
(* -8 .. 8 m/s), windProfile one of the keys of WIND_PROFILES.              *)
(***************************************************************************)
\* the largest wind speed, in m/s, of the launches of the standard design
MaxWindSpeed == 1

\* weights (g) given to the standard design; the slider allows 15 .. 150
Weights == {15, 50, 100, 150}

\* launch angles given to the standard design
LaunchAngles == {0, 4}

defaultConfig ==
  [ enhancedAttitudeControl |-> ENHANCED_ATTITUDE_CONTROL,
    windAngleLimitation |-> WIND_ANGLE_LIMITATION ]

Launch(rp, launchAngle, wind, profile, cfg) ==
  [ rocketParams |-> rp, angle |-> launchAngle, windSpeed |-> wind,
    windProfile |-> profile, config |-> cfg ]

Launches ==
  { Launch(simulationParams([ initialRocketState EXCEPT !.weight = w ],
                            "A8-3", 300), a, 1000 * ws, "uniform",
           defaultConfig) :
      w \in Weights, a \in LaunchAngles, ws \in 0 .. MaxWindSpeed }
  \cup
  { Launch(simulationParams(aftHeavyRocketState, "A8-3", 300), -8, 6000,
           "uniform", defaultConfig),
    Launch(simulationParams(foreHeavyRocketState, "A8-3", 300), 12, 6000,
           "uniform", defaultConfig),
    Launch(simulationParams(initialRocketState, "A8-3", 300), 0, 1000,
           "uniform",
           [ enhancedAttitudeControl |-> TRUE, windAngleLimitation |-> TRUE ]),
    Launch(simulationParams(initialRocketState, "A8-3", 300), 0, -1000,
           "urban", defaultConfig),
    Launch(simulationParams([ initialRocketState EXCEPT !.weight = 150 ],
                            "1/2A6-2", 300), 30, -6000, "uniform",
           [ enhancedAttitudeControl |-> TRUE, windAngleLimitation |-> TRUE ]) }

(***************************************************************************)
(* predictLanding and calculateFlightPathWithLanding                       *)
(* (RocketLandingPrediction.jsx).  handleLaunch calls the engine through   *)
(* the wrapper, which passes the engine's samples to predictLanding and    *)
(* adds the prediction to the result.  predictLanding is exported, so it   *)
(* can also be called on its own, with any arguments.  Units as in the     *)
(* engine: heights and x in um, velocities in 1e-4 m/s, forces in 1e-5 N,   *)
(* wind in mm/s; timeToLanding and remainingTime in us, so that one pass   *)
(* of the loop (dt = 0.05) takes 50000 off remainingTime.                  *)
(***************************************************************************)
\* the default whatever the object holds
FieldNeverRead(o, name, value) == value

\* o[name] ?? value
Field(o, name, value) == IF name \in DOMAIN o THEN o[name] ELSE value

\* the numbers predictLanding reads off rocketParams: the default object in
\* place of an argument that is not an object; a field the object lacks gives
\* NaN (selectedParachute: the diameter 0.3 m)
predictionParams(isObject, rp) ==
  IF ~isObject
  THEN [ weight |-> 50, bodyWidth |-> 310, bodyHeight |-> 2550,
         selectedParachute |-> 300, nan |-> {} ]
  ELSE [ weight |-> Field(rp, "weight", 0),
         bodyWidth |-> Field(rp, "bodyWidth", 0),
         bodyHeight |-> Field(rp, "bodyHeight", 0),
         selectedParachute |-> Field(rp, "selectedParachute", 300),
         nan |-> {"weight", "bodyWidth", "bodyHeight"} \ DOMAIN rp ]

defaultLandingPrediction ==
  [ landingX |-> 0, landingDistance |-> 0, timeToLanding |-> 0,
    isPrediction |-> TRUE, nan |-> {} ]

\* the locals of predictLanding at the head of its loop, from the last sample
predictionLocals(lastDataPoint) ==
  LET nan == Field(lastDataPoint, "nan", {})
      finalHeight == Field(lastDataPoint, "height", 0)
      finalVy == Field(lastDataPoint, "vy", 0)
      isParachuteActive == Field(lastDataPoint, "isParachuteActive", FALSE)
      vyGiven == "vy" \notin nan /\ finalVy # 0
      parachuteTerminalVelocity ==
        IF isParachuteActive /\ vyGiven THEN Abs(finalVy) ELSE 50000
      safeTerminalVelocity ==
        IF parachuteTerminalVelocity > 5000 THEN parachuteTerminalVelocity
        ELSE 50000
      timeToLanding == MulDiv(finalHeight, 10000, safeTerminalVelocity)
  IN  [ currentHeight |-> finalHeight,
        currentX |-> Field(lastDataPoint, "physicsX", 0),
        currentVx |-> Field(lastDataPoint, "vx", 0),
        currentVy |-> IF vyGiven THEN finalVy ELSE -safeTerminalVelocity,
        remainingTime |-> timeToLanding,
        timeToLanding |-> timeToLanding,
        safeTerminalVelocity |-> safeTerminalVelocity,
        isParachuteActive |-> isParachuteActive,
        isParachuteEjected |->
          Field(lastDataPoint, "isParachuteEjected", FALSE),
        nan |-> NaNs([ currentHeight |-> "height" \in nan,
                       currentX |-> "physicsX" \in nan,
                       currentVx |-> "vx" \in nan,
                       remainingTime |-> "height" \in nan,
                       timeToLanding |-> "height" \in nan ]) ]

\* Fx and Fy of one pass of the predictor's loop: canopy drag and cross wind
\* under the parachute; gravity, drag 0.1 * v and half the cross wind on half
\* of bodyDiameter * bodyLength while it deploys; gravity, drag 0.05 * v and
\* a fifth of the cross wind (Cdw 0.1) on three tenths of it otherwise; then
\* gravity once more unless the parachute is active
predictedForces(p, velocity, currentVx, currentVy, effectiveWindSpeed, isParachuteActive, isParachuteEjected) ==
  LET d  == p.selectedParachute
      Dp == MulDiv(Square(velocity),
                   MulDiv(MulDiv(d * d, 7854, 10000), 474688, Million),
                   100000)
      moving == velocity > 10
      bodySurface == RDiv(p.bodyWidth * p.bodyHeight, 100)
      weightForce == p.weight * 981
  IN  IF isParachuteActive
      THEN << (IF moving THEN -MulDiv(Dp, currentVx, velocity) ELSE 0)
                - crossWindDrag(effectiveWindSpeed, MulDiv(d * d, 785, 1000)),
              IF moving THEN -MulDiv(Dp, currentVy, velocity) ELSE 0 >>
      ELSE IF isParachuteEjected
      THEN << (IF moving THEN -currentVx ELSE 0)
                - RDiv(crossWindDrag(effectiveWindSpeed,
                                     RDiv(bodySurface, 2)), 2),
              -weightForce - (IF moving THEN currentVy ELSE 0)
                - weightForce >>
      ELSE << (IF moving THEN -RDiv(currentVx, 2) ELSE 0)
                - RDiv(2 * crossWindDrag(effectiveWindSpeed,
                                         RDiv(3 * bodySurface, 10)), 25),
              -weightForce - (IF moving THEN RDiv(currentVy, 2) ELSE 0)
                - weightForce >>

\* while (currentHeight > 0 && remainingTime > 0)
PredictionGuard(c) ==
  /\ ~IsNaN(c, "currentHeight") /\ c.currentHeight > 0
  /\ ~IsNaN(c, "remainingTime") /\ c.remainingTime > 0

\* one pass of the predictor's loop on the locals c.  The acceleration is F
\* divided by mass_kg, NaN when rocketParams has no weight; Fx is NaN as well
\* when the cross wind is taken on a body without width or height.
predictionStep(p, c, baseWindSpeed, profile) ==
  LET effectiveWindSpeed ==
        calculateWindSpeedAtHeight(baseWindSpeed, c.currentHeight, profile)
      speedIsNaN == IsNaN(c, "currentVx") \/ IsNaN(c, "currentVy")
      velocity == IF speedIsNaN THEN 0 ELSE Hypot(c.currentVx, c.currentVy)
      F == predictedForces(p, velocity, c.currentVx, c.currentVy,
                           effectiveWindSpeed, c.isParachuteActive,
                           c.isParachuteEjected)
      massIsNaN == "weight" \in p.nan
      vxIsNaN == \/ IsNaN(c, "currentVx") \/ massIsNaN
                 \/ (~c.isParachuteActive
                     /\ p.nan \cap {"bodyWidth", "bodyHeight"} # {})
      vyIsNaN == IsNaN(c, "currentVy") \/ massIsNaN
      vx == Num(vxIsNaN, c.currentVx + RDiv(accelerationOf(F[1], p.weight), 2))
      uy == Num(vyIsNaN, c.currentVy + RDiv(accelerationOf(F[2], p.weight), 2))
      vy == IF c.isParachuteActive /\ ~vyIsNaN /\ uy < -c.safeTerminalVelocity
            THEN -c.safeTerminalVelocity ELSE uy
      xIsNaN == IsNaN(c, "currentX") \/ vxIsNaN
  IN  [ c EXCEPT
          !.currentVx = vx,
          !.currentVy = vy,
          !.currentX = Num(xIsNaN, @ + 5 * vx),
          !.currentHeight = Num(vyIsNaN, Max(@ + 5 * vy, 0)),
          !.remainingTime = @ - 50000,
          !.nan = (@ \cap {"remainingTime", "timeToLanding"})
                  \cup NaNs([ currentVx |-> vxIsNaN, currentVy |-> vyIsNaN,
                              currentX |-> xIsNaN,
                              currentHeight |-> vyIsNaN ]) ]

\* a call predictLanding(rocketParams, flightData, windSpeed, windProfile):
\* rocketParams an object (a record of its fields) or not; flightData an
\* "array" of samples, an "object" with such an array as its data, a "number"
\* or a "string".  An element of the array that is undefined is the record
\* [undefined |-> TRUE].
LandingCall(isObject, rp, flightDataType, dataArray, baseWindSpeed, profile) ==
  [ pc |-> "call", isObject |-> isObject, rocketParams |-> rp,
    flightDataType |-> flightDataType, data |-> dataArray,
    windSpeed |-> baseWindSpeed, windProfile |-> profile,
    p |-> predictionParams(FALSE, rp), c |-> predictionLocals(<< >>),
    steps |-> 0, result |-> defaultLandingPrediction ]

\* no call of predictLanding has been made
NoLandingCall ==
  [ LandingCall(FALSE, << >>, "array", << >>, 0, "uniform") EXCEPT
      !.pc = "idle" ]

(***************************************************************************)
(* The aerodynamic-property functions of RocketPhysics.jsx called on an    *)
(* argument that need not be a design: an object (the record of its        *)
(* fields; a field that is missing or not a number is left out), null, or  *)
(* a number.  Of a call the outcome is kept: "zero" for the all-zero       *)
(* object, "NaN" for a result with a NaN in it, "TypeError" for a thrown   *)
(* exception, "value" for a result computed from numbers.                  *)
(***************************************************************************)
\* the numeric geometry fields each function computes its result from
GeometryRead ==
  [ calculateProjectedArea |->
      {"noseHeight", "bodyHeight", "bodyWidth", "finHeight", "finBaseWidth",
       "finTipWidth", "finThickness", "finSweepLength"},
    calculateVolume |-> {"noseHeight", "bodyHeight", "bodyWidth"},
    calculateCenterOfPressure |->
      {"noseHeight", "bodyHeight", "bodyWidth", "finHeight", "finBaseWidth",
       "finTipWidth", "finSweepLength"},
    calculateAerodynamicCenter |->
      {"noseHeight", "bodyHeight", "bodyWidth", "finHeight", "finBaseWidth",
       "finTipWidth", "finSweepLength"},
    calculateStabilityCenterOfPressure |->
      {"noseHeight", "bodyHeight", "bodyWidth", "finHeight", "finBaseWidth",
       "finTipWidth", "finSweepLength"},
    calculateStaticMargin |->
      {"noseHeight", "bodyHeight", "bodyWidth", "finHeight", "finBaseWidth",
       "finTipWidth", "finSweepLength", "centerOfGravity"},
    calculateFinDivergenceSpeed |->
      {"finHeight", "finBaseWidth", "finTipWidth", "finSweepLength",
       "finThickness"},
    calculateFinFlutterSpeed |->
      {"finHeight", "finBaseWidth", "finTipWidth", "finThickness"} ]

\* the outcome of the call f(rocketParams).  calculateProjectedArea checks
\* its argument and its eight numbers and returns the zeros; the others
\* destructure the argument (a TypeError for null) and compute with what
\* they find: undefined gives NaN, calculateProjectedArea's zeros have no
\* noseArea, and FIN_MATERIALS[undefined].G is a TypeError.
PropertyOutcome(f, kind, rp) ==
  LET fields == IF kind = "object" THEN DOMAIN rp ELSE {}
      has(names) == names \subseteq fields
      areasAreZeros == ~has(GeometryRead.calculateProjectedArea)
      computed(isNumber) == IF isNumber THEN "value" ELSE "NaN"
  IN  IF f = "calculateProjectedArea"
      THEN IF kind # "object" \/ areasAreZeros THEN "zero" ELSE "value"
      ELSE IF kind = "null" THEN "TypeError"
      ELSE IF f = "calculateCenterOfPressure" THEN computed(~areasAreZeros)
      ELSE IF f \in {"calculateVolume", "calculateAerodynamicCenter",
                     "calculateStabilityCenterOfPressure"}
      THEN computed(has(GeometryRead[f]))
      ELSE IF f = "calculateStaticMargin"
      THEN computed(~areasAreZeros /\ "centerOfGravity" \in fields)
      ELSE IF "finMaterial" \notin fields THEN "TypeError"
      ELSE computed(has(GeometryRead[f]))

\* the arguments given: the standard design, null, a number, and the design
\* with one of its fields, or all of them, left out
PropertyArguments ==
  LET design == [ finMaterial |-> "light_veneer" ]
                  @@ simulationParams(initialRocketState, "A8-3", 300)
      without(names) == [ n \in DOMAIN design \ names |-> design[n] ]
  IN  { << "object", design >>, << "null", << >> >>, << "number", << >> >>,
        << "object", << >> >> }
      \cup { << "object", without({n}) >> :
               n \in GeometryRead.calculateStaticMargin
                     \cup {"finThickness", "finMaterial"} }

\* no function called yet on the argument a
PropertyCalls(a) ==
  [ kind |-> a[1], rocketParams |-> a[2],
    outcome |-> [ f \in DOMAIN GeometryRead |-> "notCalled" ] ]

NoProperties == PropertyCalls(<< "null", << >> >>)

(***************************************************************************)
(* The simulator makes two calls of calculateFlightPath with one           *)
(* simulationParams object: the effect that sets the drawing scale calls   *)
(* it when the object is new, and handleLaunch calls it (through           *)
(* calculateFlightPathWithLanding) when the launch button is pressed.      *)
(***************************************************************************)
VARIABLES
  rocketParams,   \* arguments of calculateFlightPath
  angle,
  windSpeed,
  windProfile,
  config,
  caller,         \* "useEffect" or "handleLaunch"
  pc,             \* "call", "loop", "break", "returned", "ready", "predicting",
                  \* "wrapped", "done"; "idle" when predictLanding is called
                  \* on its own
  loc,            \* the local variables of calculateFlightPath
  keyPoints,
  data,           \* the FlightSamples pushed so far
  flight,         \* the result handed to the caller
  ui,             \* the simulator state the callers set
  obs,            \* history of the run, for stating the properties
  landing,        \* the call of predictLanding: arguments, locals, result
  properties,     \* the calls of the aerodynamic-property functions on an
                  \* argument: its kind, its fields, the outcome of each
  animation       \* the playback of handleLaunch: the frame requested, the
                  \* closure's firstFrame, the last elapsed time and index,
                  \* the state animationId, the animationId that handleReset
                  \* closed over at the last render, and whether handleReset
                  \* has run since the launch

vars ==
  << rocketParams, angle, windSpeed, windProfile, config, caller, pc, loc,
     keyPoints, data, flight, ui, obs, landing, properties, animation >>

\* no frame is requested.  An animationId is "null", "pending" (the id of
\* the request that is waiting for its frame) or "stale" (the id of a request
\* whose frame has run).
NoAnimation ==
  [ requested |-> FALSE, firstFrame |-> FALSE, elapsed |-> DblFromInt(0),
    timeIndex |-> -1, animationId |-> "null", closureId |-> "null",
    reset |-> FALSE ]

\* an animationId once the frame that was waiting has run
Fired(id) == IF id = "pending" THEN "stale" ELSE id

\* the index of a frame without the clamp into the sequence
timeIndexUnclamped(elapsed, length) ==
  DblFloorDiv(elapsed, dt)

\* Math.max(0, Math.min(Math.floor(elapsed / 0.02), flight.data.length - 1))
timeIndexOf(elapsed, length) ==
  Max(0, Min(DblFloorDiv(elapsed, dt), length - 1))

\* elapsed = Math.max(0, (timestamp - startTime) / 1000 * ANIMATION_SPEED) of
\* the frames of a playback: the start, whole numbers of steps at the head
\* and at the tail of the sequence and beyond it, times between two steps,
\* and the times the engine accumulated for some samples
FrameTimes(f) ==
  LET length == Len(f.data)
      steps  == { k \in {1, 2, 3, length - 2, length - 1, length} : k > 0 }
      read   == { i \in {2, 4, 7, length - 1, length} : i \in 1..length }
  IN  {DblFromInt(0), DblAdd(DblMulInt(length, dt), DblFromInt(1))}
        \cup { DblMulInt(k, dt) : k \in steps }
        \cup { DblAdd(DblMulInt(k, dt), << 655, 0, 0 >>) : k \in steps }
        \cup { f.data[i].time : i \in read }

\* the verdicts before any results are published
NoResults ==
  [ isDivergenceOK |-> FALSE, isFlutterOK |-> FALSE, isDeflectionOK |-> FALSE,
    isAngleStableOK |-> FALSE, isAbsoluteAngleOK |-> FALSE,
    isOverallOK |-> FALSE ]

\* the verdicts of the results object that animate builds at the last sample.
\* maxSpeed and maxFinDeflection are the maxima over the samples of
\* speedMagnitude (NaN with vx and vy, and then 0) and finDeflection, so a
\* maximum is below a positive limit when every sample is;
\* maxDeflectionPercent <= 3 compares the deflection in nm with 3 % of
\* finHeight (0.1 mm).
resultsOf(f, finHeight) ==
  LET samples == 1 .. Len(f.data)
      speedMagnitude(d) == IF "vx" \in d.nan THEN 0 ELSE d.speedMagnitude
      isDivergenceOK ==
        \A i \in samples :
          speedMagnitude(f.data[i]) < 10000 * f.calculations.finDivergenceSpeed
      isFlutterOK ==
        \A i \in samples :
          speedMagnitude(f.data[i]) < 10000 * f.calculations.finFlutterSpeed
      isDeflectionOK ==
        \A i \in samples : f.data[i].finDeflection <= 3000 * finHeight
      isAngleStableOK == f.angleStability.isAngleStableOK
      isAbsoluteAngleOK == f.angleStability.isAbsoluteAngleOK
  IN  [ isDivergenceOK |-> isDivergenceOK, isFlutterOK |-> isFlutterOK,
        isDeflectionOK |-> isDeflectionOK,
        isAngleStableOK |-> isAngleStableOK,
        isAbsoluteAngleOK |-> isAbsoluteAngleOK,
        isOverallOK |-> /\ isDivergenceOK /\ isFlutterOK /\ isDeflectionOK
                        /\ isAngleStableOK /\ isAbsoluteAngleOK ]

KeyPointNames ==
  {"thrustEnd", "prec_MaxHeight", "maxHeight", "parachuteEjection",
   "parachuteActive"}

\* the locals as the declarations before the loop leave them; momentOfInertia
\* is computed from rocketParams.finCp as the caller passed it
InitialLocals(rp, launchAngle) ==
  [ time |-> DblFromInt(0), x |-> 0, y |-> 0, vx |-> 0, vy |-> 0,
    omega |-> DegToRad(launchAngle), prevOmega |-> DegToRad(launchAngle),
    angularVelocity |-> 0, angularAcceleration |-> 0, angleChangePerDt2 |-> 0,
    stepCounter |-> 0, totalTorque |-> 0,
    isParachuteEjected |-> FALSE, isParachuteActive |-> FALSE,
    thrustEndFlag |-> FALSE, isAngleStableOK |-> TRUE,
    isAbsoluteAngleOK |-> TRUE, isTorqueStableOK |-> TRUE,
    maxAngleChangePerDt2 |-> 0, maxAbsoluteAngle |-> 0,
    angleChangeBuffer |-> << >>, prec_MaxHeight |-> 0, maxHeight |-> 0,
    maxSpeed |-> 0, maxDistance |-> 0,
    momentOfInertia |-> IF "finCp" \in DOMAIN rp THEN momentOfInertia(rp)
                        ELSE 0,
    nan |-> IF "finCp" \in DOMAIN rp THEN {} ELSE {"momentOfInertia"} ]

InitialKeyPoints == [ k \in KeyPointNames |-> KeyPoint(DblFromInt(0), 0, 0) ]

InitialObs ==
  [ iterations |-> 0, onLaunchRail |-> TRUE, leftRail |-> FALSE,
    phase |-> "OnRail", prevPhase |-> "OnRail", rawTorque |-> 0,
    maxRawTorque |-> 0, updates |-> 0, velocityCuts |-> 0,
    writes |-> [ k \in KeyPointNames |-> 0 ] ]

\* a new simulationParams object, and the effect about to make its call
Init ==
  /\ \E L \in Launches :
       /\ rocketParams = L.rocketParams
       /\ angle = L.angle
       /\ windSpeed = L.windSpeed
       /\ windProfile = L.windProfile
       /\ config = L.config
       /\ loc = InitialLocals(L.rocketParams, L.angle)
  /\ caller = "useEffect"
  /\ pc = "call"
  /\ keyPoints = InitialKeyPoints
  /\ data = << >>
  /\ flight = [ data |-> << >> ]
  /\ ui = [ isLaunched |-> FALSE, flightData |-> 0, flightResults |-> "null",
            results |-> NoResults,
            showResultsPopup |-> FALSE, trajectoryScale |-> "initial",
            completedFlights |-> 0, currentTime |-> DblFromInt(0),
            currentHeight |-> 0 ]
  /\ animation = NoAnimation
  /\ obs = InitialObs
  /\ landing = NoLandingCall
  /\ properties = NoProperties

\* calculateFlightPath up to its loop: the declarations, with
\* momentOfInertia computed before rocketParams.finCp is assigned
calculateFlightPath ==
  /\ pc = "call"
  /\ loc' = InitialLocals(rocketParams, angle)
  /\ rocketParams' =
       [ finCp |-> calculateCenterOfPressure(rocketParams).finCp ]
         @@ rocketParams
  /\ keyPoints' = InitialKeyPoints
  /\ data' = << >>
  /\ obs' = InitialObs
  /\ pc' = "loop"
  /\ UNCHANGED << animation, properties, landing, angle, windSpeed, windProfile, config, caller, flight,
                  ui >>

\* the history of the run after a pass with outcome r
observed(r) ==
  [ iterations |-> obs.iterations + 1,
    onLaunchRail |-> r.onLaunchRail,
    leftRail |-> obs.leftRail \/ (obs.iterations > 0 /\ ~obs.onLaunchRail),
    phase |-> r.phase,
    prevPhase |-> IF obs.iterations = 0 THEN r.phase ELSE obs.phase,
    rawTorque |-> r.rawTorque,
    maxRawTorque |-> Max(obs.maxRawTorque, Abs(r.rawTorque)),
    updates |-> obs.updates + (IF r.updated THEN 1 ELSE 0),
    velocityCuts |-> obs.velocityCuts + (IF r.cut THEN 1 ELSE 0),
    writes |-> [ k \in KeyPointNames |->
                   obs.writes[k] + (IF k \in r.wrote THEN 1 ELSE 0) ] ]

\* the effect of a pass with outcome r: flightData.push(sample), or break
LoopBody(r) ==
  /\ loc' = r.loc
  /\ keyPoints' = r.keyPoints
  /\ data' = IF r.brk THEN data ELSE Append(data, r.sample)
  /\ pc' = IF r.brk THEN "break" ELSE "loop"
  /\ obs' = observed(r)

\* one pass through the loop body
Step ==
  /\ pc = "loop"
  /\ LoopGuard(loc)
  /\ LoopBody(Iteration(loc, keyPoints, rocketParams, angle, windSpeed,
                        windProfile, config))
  /\ UNCHANGED << animation, properties, landing, rocketParams, angle, windSpeed, windProfile, config,
                  caller,                   flight, ui >>

\* the object calculateFlightPath returns once the loop is left
FlightResult ==
  [ data |-> data,
    prec_MaxHeight |-> loc.prec_MaxHeight,
    maxHeight |-> loc.maxHeight,
    maxSpeed |-> loc.maxSpeed,
    maxDistance |-> loc.maxDistance,
    keyPoints |-> keyPoints,
    calculations |->
      [ finDivergenceSpeed |->
          RDiv(calculateFinDivergenceSpeed(rocketParams), 100),
        finFlutterSpeed |->
          RDiv(calculateFinFlutterSpeed(rocketParams), 100) ],
    angleStability |->
      [ maxAngleChangePerDt2 |-> loc.maxAngleChangePerDt2,
        isAngleStableOK |-> loc.isAngleStableOK,
        isAbsoluteAngleOK |-> loc.isAbsoluteAngleOK,
        isTorqueStableOK |-> loc.isTorqueStableOK,
        isStabilityOverallOK |->
          loc.isAngleStableOK /\ loc.isAbsoluteAngleOK
          /\ loc.isTorqueStableOK,
        maxAbsoluteAngle |-> loc.maxAbsoluteAngle ] ]

\* the loop is left, by its condition or by break, and the result returned
Return ==
  /\ pc = "break" \/ (pc = "loop" /\ ~LoopGuard(loc))
  /\ flight' = FlightResult
  /\ pc' = "returned"
  /\ UNCHANGED << animation, properties, landing, rocketParams, angle, windSpeed, windProfile, config,
                  caller,                   loc, keyPoints, data, ui, obs >>

\* the effect after its call: the drawing scale is set from the flight when
\* flight.maxHeight > 0
updateScale ==
  /\ pc = "returned"
  /\ caller = "useEffect"
  /\ ui' = IF flight.maxHeight > 0
           THEN [ ui EXCEPT !.trajectoryScale = "fromFlight" ]
           ELSE ui
  /\ pc' = "ready"
  /\ UNCHANGED << animation, properties, landing, rocketParams, angle, windSpeed, windProfile, config,
                  caller,                   loc, keyPoints, data, flight, obs >>

\* handleLaunch up to its call of the engine, with the same object
handleLaunch ==
  /\ pc = "ready"
  /\ ~ui.isLaunched
  /\ caller' = "handleLaunch"
  /\ pc' = "call"
  /\ UNCHANGED << animation, properties, landing, rocketParams, angle, windSpeed, windProfile, config,
                  loc,                   keyPoints, data, flight, ui, obs >>

\* predictLanding up to its loop: the checks of the arguments with their
\* early returns, the result for a last sample on the ground, the locals
predictLanding ==
  /\ landing.pc = "call"
  /\ landing' =
       LET dataArray == landing.data
           lastDataPoint == dataArray[Len(dataArray)]
           c == predictionLocals(lastDataPoint)
       IN  IF \/ landing.flightDataType \notin {"array", "object"}
              \/ Len(dataArray) = 0
              \/ "undefined" \in DOMAIN lastDataPoint
           THEN [ landing EXCEPT !.pc = "returned",
                                 !.result = defaultLandingPrediction ]
           ELSE IF ~IsNaN(c, "currentHeight") /\ c.currentHeight <= 0
           THEN [ landing EXCEPT
                    !.pc = "returned",
                    !.c = c,
                    !.result =
                      [ landingX |-> c.currentX,
                        landingDistance |-> Abs(c.currentX),
                        timeToLanding |-> 0,
                        isPrediction |-> FALSE,
                        nan |-> IF IsNaN(c, "currentX")
                                THEN {"landingX", "landingDistance"}
                                ELSE {} ] ]
           ELSE [ landing EXCEPT
                    !.pc = "loop",
                    !.c = c,
                    !.p = predictionParams(landing.isObject,
                                           landing.rocketParams) ]
  /\ UNCHANGED << animation, properties, rocketParams, angle, windSpeed, windProfile, config, caller,
                  pc, loc, keyPoints, data, flight, ui, obs >>

\* one pass through the loop of predictLanding
predictStep ==
  /\ landing.pc = "loop"
  /\ PredictionGuard(landing.c)
  /\ landing' =
       [ landing EXCEPT
           !.c = predictionStep(landing.p, @, landing.windSpeed,
                                landing.windProfile),
           !.steps = @ + 1 ]
  /\ UNCHANGED << animation, properties, rocketParams, angle, windSpeed, windProfile, config, caller,
                  pc, loc, keyPoints, data, flight, ui, obs >>

\* the loop of predictLanding is left and the prediction returned
predictReturn ==
  /\ landing.pc = "loop"
  /\ ~PredictionGuard(landing.c)
  /\ landing' =
       [ landing EXCEPT
           !.pc = "returned",
           !.result =
             [ landingX |-> landing.c.currentX,
               landingDistance |-> Abs(landing.c.currentX),
               timeToLanding |-> landing.c.timeToLanding,
               isPrediction |-> TRUE,
               nan |-> NaNs([ landingX |-> IsNaN(landing.c, "currentX"),
                              landingDistance |->
                                IsNaN(landing.c, "currentX"),
                              timeToLanding |->
                                IsNaN(landing.c, "timeToLanding") ]) ] ]
  /\ UNCHANGED << animation, properties, rocketParams, angle, windSpeed, windProfile, config, caller,
                  pc, loc, keyPoints, data, flight, ui, obs >>

\* calculateFlightPathWithLanding after its call of calculateFlightPath: the
\* call predictLanding(rocketParams, flightResult.data, windSpeed, windProfile)
callPredictLanding ==
  /\ pc = "returned"
  /\ caller = "handleLaunch"
  /\ landing' = LandingCall(TRUE, rocketParams, "array", flight.data,
                            windSpeed, windProfile)
  /\ pc' = "predicting"
  /\ UNCHANGED << animation, properties, rocketParams, angle, windSpeed, windProfile, config, caller,
                  loc, keyPoints, data, flight, ui, obs >>

\* the time of the last sample whatever was predicted
totalFlightTimeOfRun(hasLanded, lastTimePoint, timeToLanding) == lastTimePoint

\* totalFlightTime: lastTimePoint for a landed run, and
\* lastTimePoint + landingPrediction.timeToLanding otherwise (in both
\* branches of the test for the time limit)
totalFlightTimeOf(hasLanded, lastTimePoint, timeToLanding) ==
  IF hasLanded THEN lastTimePoint ELSE lastTimePoint + timeToLanding

\* calculateFlightPathWithLanding after predictLanding has returned: the
\* engine's result with landing and keyPoints.predictedLanding added; times
\* in us
calculateFlightPathWithLanding ==
  /\ pc = "predicting"
  /\ landing.pc = "returned"
  /\ flight' =
       LET landingPrediction == landing.result
           hasData == Len(flight.data) > 0
           last == flight.data[Len(flight.data)]
           lastTimePoint == IF hasData THEN 1000 * DblToMilli(last.time)
                            ELSE 0
           hasLanded == IF hasData
                        THEN "height" \notin last.nan /\ last.height <= 0
                        ELSE TRUE
           predictedTime == lastTimePoint + landingPrediction.timeToLanding
           totalFlightTime ==
             totalFlightTimeOf(hasLanded, lastTimePoint,
                               landingPrediction.timeToLanding)
       IN  [ landing |->
               [ totalFlightTime |-> totalFlightTime ] @@ landingPrediction,
             keyPoints |->
               [ predictedLanding |->
                   [ time |-> predictedTime,
                     distance |-> landingPrediction.landingDistance,
                     x |-> landingPrediction.landingX,
                     totalFlightTime |-> totalFlightTime ] ]
                 @@ flight.keyPoints ]
             @@ flight
  /\ pc' = "wrapped"
  /\ UNCHANGED << animation, properties, landing, rocketParams, angle, windSpeed, windProfile, config,
                  caller, loc, keyPoints, data, ui, obs >>


\* flight.error?.hasError
HasError(f) == "error" \in DOMAIN f /\ f.error.hasError

\* handleLaunch after the wrapper has returned: empty data, the error branch,
\* or the start of playback
handleLaunchResult ==
  /\ pc = "wrapped"
  /\ caller = "handleLaunch"
  /\ ui' = IF Len(flight.data) = 0 THEN ui
           ELSE IF HasError(flight)
           THEN [ ui EXCEPT !.flightResults = "errorResults",
                            !.showResultsPopup = TRUE ]
           ELSE [ ui EXCEPT !.flightData = Len(flight.data),
                            !.isLaunched = TRUE,
                            !.currentTime = DblFromInt(0),
                            !.currentHeight = flight.data[1].height ]
  /\ animation' = IF Len(flight.data) = 0 \/ HasError(flight) THEN animation
                  ELSE [ animation EXCEPT
                           !.requested = TRUE, !.firstFrame = TRUE,
                           !.elapsed = DblFromInt(0), !.timeIndex = -1,
                           !.reset = FALSE ]
  /\ pc' = "done"
  /\ UNCHANGED << properties, landing, rocketParams, angle, windSpeed, windProfile, config,
                  caller,                   loc, keyPoints, data, flight, obs >>

\* a frame of the playback: the first one only requests the next; the others
\* show the sample at timeIndex, when there is one, and either request the
\* next frame or, at the last sample, publish the results and end the launch.
\* Only a frame that shows a sample and requests the next one stores the id
\* of its request (setAnimationId); handleLaunch and the first frame do not.
animate ==
  /\ animation.requested
  /\ \E elapsed \in FrameTimes(flight) :
       /\ DblGe(elapsed, animation.elapsed)
       /\ IF animation.firstFrame
          THEN /\ animation' = [ animation EXCEPT
                                  !.firstFrame = FALSE,
                                  !.animationId = Fired(@),
                                  !.closureId = Fired(@) ]
               /\ ui' = ui
          ELSE LET timeIndex == timeIndexOf(elapsed, Len(flight.data))
                   inData == timeIndex >= 0 /\ timeIndex < Len(flight.data)
                   currentData == flight.data[timeIndex + 1]
                   last == timeIndex >= Len(flight.data) - 1
               IN  /\ animation' =
                        [ animation EXCEPT
                            !.requested = inData /\ ~last,
                            !.firstFrame = FALSE,
                            !.elapsed = elapsed, !.timeIndex = timeIndex,
                            !.animationId =
                              IF inData /\ ~last THEN "pending" ELSE Fired(@),
                            !.closureId = Fired(@) ]
                   /\ ui' =
                        IF ~inData THEN ui
                        ELSE IF last
                        THEN [ ui EXCEPT
                                 !.currentTime = elapsed,
                                 !.currentHeight = currentData.height,
                                 !.flightResults = "results",
                                 !.results =
                                   resultsOf(flight, rocketParams.finHeight),
                                 !.showResultsPopup = TRUE,
                                 !.completedFlights = @ + 1,
                                 !.isLaunched = FALSE ]
                        ELSE [ ui EXCEPT
                                 !.currentTime = elapsed,
                                 !.currentHeight = currentData.height ]
  /\ UNCHANGED << properties, landing, rocketParams, angle, windSpeed,
                  windProfile, config, caller, pc, loc, keyPoints, data,
                  flight, obs >>

\* a render of the component: useCallback gives handleReset a closure over
\* the animationId of this render
rerender ==
  /\ pc = "done"
  /\ animation.closureId # animation.animationId
  /\ animation' = [ animation EXCEPT !.closureId = animation.animationId ]
  /\ UNCHANGED << properties, landing, rocketParams, angle, windSpeed,
                  windProfile, config, caller, pc, loc, keyPoints, data,
                  flight, ui, obs >>

\* handleReset, called after handleLaunch has returned: it cancels the frame
\* request whose id its closure holds, when it holds one, and resets the
\* simulation state
handleReset ==
  /\ pc = "done"
  /\ caller = "handleLaunch"
  /\ animation' =
       [ animation EXCEPT
           !.requested = IF animation.closureId = "pending" THEN FALSE ELSE @,
           !.animationId = IF animation.closureId # "null" THEN "null" ELSE @,
           !.reset = TRUE ]
  /\ ui' = [ ui EXCEPT
               !.flightResults = "null", !.results = NoResults,
               !.showResultsPopup = FALSE, !.isLaunched = FALSE,
               !.flightData = 0, !.currentTime = DblFromInt(0),
               !.currentHeight = 0, !.completedFlights = 0,
               !.trajectoryScale = "initial" ]
  /\ UNCHANGED << properties, landing, rocketParams, angle, windSpeed,
                  windProfile, config, caller, pc, loc, keyPoints, data,
                  flight, obs >>

Next ==
  \/ calculateFlightPath
  \/ Step
  \/ Return
  \/ updateScale
  \/ handleLaunch
  \/ callPredictLanding
  \/ predictLanding
  \/ predictStep
  \/ predictReturn
  \/ calculateFlightPathWithLanding
  \/ handleLaunchResult
  \/ animate
  \/ rerender
  \/ handleReset

Spec == Init /\ [][Next]_vars

\* Step is enabled exactly when the loop is running and its guard holds
StepEnabled == pc = "loop" /\ LoopGuard(loc)

\* the entry of a call and its return
Engine == calculateFlightPath \/ Return

\* ENABLED <<Engine>>_vars: both of its steps change pc
EngineEnabled == pc \in {"call", "break"} \/ (pc = "loop" /\ ~LoopGuard(loc))

\* the callers' steps: the effect after its call, the launch button, and
\* handleLaunch after the engine has returned
Callers == updateScale \/ handleLaunch \/ handleLaunchResult

\* The engine and its callers are sequential code and the launch button is
\* pressed: a step that can be taken is taken.  The first two conjuncts are
\* WF_vars(Step) and WF_vars(Engine) with the enabling conditions written
\* out.
FairSpec ==
  /\ Spec
  /\ ([]<>~StepEnabled \/ []<><<Step>>_vars)
  /\ ([]<>~EngineEnabled \/ []<><<Engine>>_vars)
  /\ WF_vars(Callers)

(***************************************************************************)
(* predictLanding called on its own.  The last samples are those of runs   *)
(* of the engine: of the standard design at 4 degrees in 1 m/s of wind     *)
(* (50 g, landed under the parachute; 150 g, landed without it), at 0      *)
(* degrees in the urban profile (in the air under the parachute, and a     *)
(* sample of the second in which the parachute deploys) and of the         *)
(* aft-heavy design (in the air when the run was aborted); a sample with   *)
(* nothing but its height; and an undefined element.                       *)
(***************************************************************************)
TerminalSamples ==
  { [ height |-> -28425, physicsX |-> 8343085, vx |-> -835, vy |-> -38225,
      isParachuteEjected |-> TRUE, isParachuteActive |-> TRUE ],
    [ height |-> -77173, physicsX |-> 2426031, vx |-> 12987, vy |-> -91683,
      isParachuteEjected |-> FALSE, isParachuteActive |-> FALSE ],
    [ height |-> 3909524, physicsX |-> 8965330, vx |-> 2334, vy |-> -38188,
      isParachuteEjected |-> TRUE, isParachuteActive |-> TRUE ],
    [ height |-> 63140672, physicsX |-> -1093624, vx |-> -2176,
      vy |-> -34714, isParachuteEjected |-> TRUE,
      isParachuteActive |-> FALSE ],
    [ height |-> 1241258, physicsX |-> -4136830, vx |-> -8746,
      vy |-> -121516, isParachuteEjected |-> FALSE,
      isParachuteActive |-> FALSE ],
    [ height |-> 3909524 ],
    [ undefined |-> TRUE ] }

\* the calls made: rocketParams the simulator's object, a value that is not
\* an object, an object without numeric fields, an object without the body's
\* dimensions; flightData an array (empty, or ending in one of the samples),
\* an object holding such an array, a number, a string
PredictionCalls ==
  { LandingCall(rp[1], rp[2], fd[1], fd[2], w[1], w[2]) :
      rp \in { << TRUE, simulationParams(initialRocketState, "A8-3", 300) >>,
               << FALSE, << >> >>,
               << TRUE, [ noseShape |-> "ogive" ] >>,
               << TRUE, [ weight |-> 50, selectedParachute |-> 300 ] >> },
      fd \in { << "number", << >> >>, << "string", << >> >>,
               << "array", << >> >> }
             \cup { << t, << sample >> >> :
                      t \in {"array", "object"}, sample \in TerminalSamples },
      w \in { << 0, "uniform" >>, << -1000, "urban" >>,
              << 6000, "uniform" >> } }

InitLanding ==
  /\ landing \in PredictionCalls
  /\ rocketParams = simulationParams(initialRocketState, "A8-3", 300)
  /\ angle = 0
  /\ windSpeed = 0
  /\ windProfile = "uniform"
  /\ config = defaultConfig
  /\ loc = InitialLocals(rocketParams, angle)
  /\ caller = "none"
  /\ pc = "idle"
  /\ keyPoints = InitialKeyPoints
  /\ data = << >>
  /\ flight = [ data |-> << >> ]
  /\ ui = [ isLaunched |-> FALSE, flightData |-> 0, flightResults |-> "null",
            results |-> NoResults,
            showResultsPopup |-> FALSE, trajectoryScale |-> "initial",
            completedFlights |-> 0, currentTime |-> DblFromInt(0),
            currentHeight |-> 0 ]
  /\ animation = NoAnimation
  /\ obs = InitialObs
  /\ properties = NoProperties

NextLanding == predictLanding \/ predictStep \/ predictReturn

LandingSpec == InitLanding /\ [][NextLanding]_vars

\* one of the property functions is called on the argument
callProperty ==
  /\ \E f \in DOMAIN GeometryRead :
       /\ properties.outcome[f] = "notCalled"
       /\ properties' =
            [ properties EXCEPT
                !.outcome[f] = PropertyOutcome(f, properties.kind,
                                               properties.rocketParams) ]
  /\ UNCHANGED << animation, landing, rocketParams, angle, windSpeed, windProfile, config,
                  caller, pc, loc, keyPoints, data, flight, ui, obs >>

InitProperties ==
  /\ \E a \in PropertyArguments : properties = PropertyCalls(a)
  /\ landing = NoLandingCall
  /\ rocketParams = simulationParams(initialRocketState, "A8-3", 300)
  /\ angle = 0
  /\ windSpeed = 0
  /\ windProfile = "uniform"
  /\ config = defaultConfig
  /\ loc = InitialLocals(rocketParams, angle)
  /\ caller = "none"
  /\ pc = "idle"
  /\ keyPoints = InitialKeyPoints
  /\ data = << >>
  /\ flight = [ data |-> << >> ]
  /\ ui = [ isLaunched |-> FALSE, flightData |-> 0, flightResults |-> "null",
            results |-> NoResults,
            showResultsPopup |-> FALSE, trajectoryScale |-> "initial",
            completedFlights |-> 0, currentTime |-> DblFromInt(0),
            currentHeight |-> 0 ]
  /\ animation = NoAnimation
  /\ obs = InitialObs

PropertiesSpec == InitProperties /\ [][callProperty]_vars

(***************************************************************************)
(* Properties.                                                             *)
(***************************************************************************)
\* the last FlightSample pushed
LastSample == data[Len(data)]

\* the order of the flight phases
PhaseRank ==
  [ OnRail |-> 1, PoweredFree |-> 2, CoastFree |-> 3, ParachuteDeploying |-> 4,
    ParachuteDescending |-> 5 ]

\* C1: the phase of a pass is never earlier in the order OnRail, PoweredFree,
\* CoastFree, ParachuteDeploying, ParachuteDescending than the phase of the
\* pass before it, and once a pass has found the rocket off the rail no
\* later pass finds it on the rail.
C1_PhasesOnlyForward ==
  /\ PhaseRank[obs.prevPhase] <= PhaseRank[obs.phase]
  /\ obs.leftRail => ~obs.onLaunchRail

\* C2 as stated: the loop makes at most 1000 passes and the time of the last
\* FlightSample is below 20.0 + dt.
C2_AtMost1000Steps ==
  /\ obs.iterations <= 1000
  /\ data # << >> => DblLt(LastSample.time, DblAdd(DblFromInt(20), dt))

\* C2, amended: every call of calculateFlightPath returns; the loop makes at
\* most 1001 passes (the clock after 1000 additions of the double 0.02 is
\* still below 20) and the time of the last FlightSample is below 20.0.
C2_TerminatesWithin1001Steps ==
  /\ (pc = "call") ~> (pc = "returned")
  /\ [](/\ obs.iterations <= 1001
        /\ data # << >> => DblLt(LastSample.time, DblFromInt(20)))

\* a run that was cut by the cap only: 1001 samples, the last at 1000 * dt
C2_RunCutByCap ==
  /\ pc = "returned"
  /\ Len(flight.data) = 1001
  /\ DblToMilli(LastSample.time) = 19999
  /\ ~LoopGuard(loc)

\* C3: every FlightSample has height >= 0.
C3_HeightNeverNegative ==
  \A i \in 1 .. Len(data) :
    "height" \notin data[i].nan /\ data[i].height >= 0

\* whether a FlightSample is on or below the ground after the grace window
Landed(sample) ==
  /\ "height" \notin sample.nan
  /\ sample.height <= 0
  /\ DblToMilli(sample.time) >= 100

\* C4: no FlightSample follows one with height <= 0 and time >= 0.1 s, and a
\* run that returns with its height not at or below the ground and without a
\* torque abort has run until its clock reached 20 s.
C4_TerminalOnLanding ==
  /\ \A i \in 1 .. Len(data) - 1 : ~Landed(data[i])
  /\ ( /\ pc = "returned"
       /\ ~(~IsNaN(loc, "y") /\ loc.y <= 0)
       /\ flight.angleStability.isTorqueStableOK )
       => DblGe(loc.time, DblFromInt(20))

\* C5: isTorqueStableOK is false exactly when some pass found a raw torque
\* ML + MD + MW + MF above 10 N.m in magnitude; that pass is the last one,
\* it pushes no FlightSample, the loop is left at once, the returned flag is
\* false and the last recorded time is below 20 s.
C5_AbnormalTorqueGuard ==
  /\ loc.isTorqueStableOK = ~(obs.maxRawTorque > 10000000)
  /\ pc \in {"returned", "done"}
       => flight.angleStability.isTorqueStableOK = loc.isTorqueStableOK
  /\ obs.maxRawTorque > 10000000
       => /\ pc # "loop"
          /\ Abs(obs.rawTorque) = obs.maxRawTorque
          /\ Len(data) = obs.iterations - 1
          /\ data # << >> => DblLt(LastSample.time, DblFromInt(20))

\* a run aborted in free flight, returned with the flag false
C5_AbortedRun ==
  /\ pc = "returned"
  /\ ~flight.angleStability.isTorqueStableOK
  /\ obs.maxRawTorque > 10000000
  /\ Len(flight.data) > 0

\* C6: a run aborted for abnormal torque returns an error record and the
\* caller takes its error branch instead of starting the playback of a
\* partial trajectory.
C6_AbortReportsError ==
  (pc = "done" /\ ~flight.angleStability.isTorqueStableOK)
    => /\ HasError(flight)
       /\ ui.flightResults = "errorResults"
       /\ ~ui.isLaunched

\* the last n FlightSamples
LastSamples(n) == [ i \in 1 .. n |-> data[Len(data) - n + i] ]

\* the torques of the last n FlightSamples
LastTorques(n) == [ i \in 1 .. n |-> LastSamples(n)[i].torque ]

\* whether one of the last n torques is NaN
LastTorquesNaN(n) == \E i \in 1 .. n : "torque" \in LastSamples(n)[i].nan

\* C7, in every state: stepCounter is in 0 .. 9 and counts the samples since
\* the last multiple of 10, the rotational update has run once per 10
\* samples, totalTorque is the sum of the torques of the current window, and
\* after an update angularAcceleration is the mean of the last 10 torques
\* (0 for a NaN mean) over the moment of inertia (NaN over a NaN one).
C7_Window ==
  /\ loc.stepCounter \in 0 .. 9
  /\ loc.stepCounter = Len(data) % 10
  /\ obs.updates = Len(data) \div 10
  /\ IsNaN(loc, "totalTorque") = LastTorquesNaN(loc.stepCounter)
  /\ ~IsNaN(loc, "totalTorque")
       => loc.totalTorque = SumSeq(LastTorques(loc.stepCounter))
  /\ (Len(data) >= 10 /\ loc.stepCounter = 0)
       => /\ IsNaN(loc, "angularAcceleration") = IsNaN(loc, "momentOfInertia")
          /\ ~IsNaN(loc, "momentOfInertia")
               => loc.angularAcceleration
                    = MulDiv(IF LastTorquesNaN(10) THEN 0
                             ELSE RDiv(SumSeq(LastTorques(10)), 10),
                             100000, loc.momentOfInertia)

\* the rotational state of the locals l
Rotation(l) ==
  << l.angularAcceleration, l.angularVelocity, l.angleChangePerDt2,
     l.nan \cap {"angularAcceleration", "angularVelocity",
                 "angleChangePerDt2"} >>

\* C7, in every step: a pass that is not a 10th one leaves angularAcceleration,
\* angularVelocity and angleChangePerDt2 as they were.
C7_NoUpdateBetween ==
  (pc = "loop" /\ loc'.stepCounter # 0) => Rotation(loc') = Rotation(loc)

\* C7: the rotational update runs on every 10th pass and on no other, from
\* the mean of the 10 torques of the window.
C7_TimestepCoupling == [](C7_Window) /\ [][C7_NoUpdateBetween]_vars

\* a 10th pass whose window held a torque and changed the angular velocity
C7_UpdateFromTorque ==
  /\ Len(data) >= 20
  /\ loc.stepCounter = 0
  /\ SumSeq(LastTorques(10)) # 0
  /\ loc.angularAcceleration # 0
  /\ loc.angleChangePerDt2 # 0

\* C8 as stated: each of the five keyPoints is assigned at most once in a run.
C8_AssignedAtMostOnce == \A k \in KeyPointNames : obs.writes[k] <= 1

\* the keyPoints of events that happen once in a run
EventKeyPoints == {"thrustEnd", "parachuteEjection", "parachuteActive"}

\* C8, amended, in every state: thrustEnd, parachuteEjection and
\* parachuteActive have been assigned at most once, a keyPoint that was never
\* assigned holds its initial value, and maxHeight and prec_MaxHeight hold the
\* running maxima of the height.
C8_Assigned ==
  /\ \A k \in EventKeyPoints : obs.writes[k] <= 1
  /\ \A k \in KeyPointNames :
       obs.writes[k] = 0 => keyPoints[k] = InitialKeyPoints[k]
  /\ keyPoints.maxHeight.height = loc.maxHeight
  /\ keyPoints.prec_MaxHeight.height = loc.prec_MaxHeight

\* C8, amended, in every step of a run: a keyPoint changes only by an
\* assignment, and an assigned thrustEnd, parachuteEjection or
\* parachuteActive is not changed.
C8_Kept ==
  pc = "loop"
    => /\ \A k \in KeyPointNames :
            keyPoints'[k] # keyPoints[k]
              => obs'.writes[k] = obs.writes[k] + 1
       /\ \A k \in EventKeyPoints :
            obs.writes[k] = 1 => keyPoints'[k] = keyPoints[k]

\* C8, amended: thrustEnd, parachuteEjection and parachuteActive are assigned
\* at most once in a run and never changed afterwards; maxHeight and
\* prec_MaxHeight are assigned again at every pass that reaches a new maximum
\* height.
C8_EventsWrittenOnce == [](C8_Assigned) /\ [][C8_Kept]_vars

\* a run in which the three events were recorded and kept while later passes
\* went on, and the maximum was assigned more than once
C8_EventsKeptMaxMoved ==
  /\ \A k \in EventKeyPoints : obs.writes[k] = 1
  /\ obs.writes.maxHeight > 1
  /\ data # << >>
  /\ DblLt(keyPoints.parachuteActive.time, LastSample.time)

\* thrustData.length * dt + parachuteDelay (+ parachuteDeployTime), from the
\* thrust curve and the motor's name
EjectionTime ==
  DblAdd(DblMulInt(Len(MOTOR_THRUST_DATA[rocketParams.selectedMotor]), dt),
         DblFromInt(parachuteDelayOf(rocketParams.selectedMotor)))

ActiveTime == DblAdd(EjectionTime, DblFromInt(1))

\* C9, for the last FlightSample in every state: isParachuteEjected holds
\* exactly from thrustEndTime + delay on and isParachuteActive exactly from
\* one second later on (so neither reverts), active implies ejected, the
\* locals carry the same flags, and the velocity has been cut to a tenth
\* once if the parachute is active and never otherwise.
C9_ParachuteByClock ==
  data # << >>
    => /\ LastSample.isParachuteEjected = DblGe(LastSample.time, EjectionTime)
       /\ LastSample.isParachuteActive = DblGe(LastSample.time, ActiveTime)
       /\ LastSample.isParachuteActive => LastSample.isParachuteEjected
       /\ loc.isParachuteEjected = LastSample.isParachuteEjected
       /\ loc.isParachuteActive = LastSample.isParachuteActive
       /\ obs.velocityCuts = IF LastSample.isParachuteActive THEN 1 ELSE 0

\* a pass under the open parachute, after the one cut of the velocity
C9_UnderParachute ==
  /\ pc = "loop"
  /\ data # << >>
  /\ LastSample.isParachuteActive
  /\ DblGe(LastSample.time, DblAdd(ActiveTime, dt))
  /\ obs.velocityCuts = 1

\* C10: the torque of every FlightSample is a number in [-1, 1] N.m.
C10_TorqueWithinClamp ==
  \A i \in 1 .. Len(data) :
    "torque" \notin data[i].nan /\ Abs(data[i].torque) <= 1000000

\* the symmetry scenario: the default geometry, motor A8-3, launch angle 0,
\* wind speed 0, the default config
SymmetryScenario ==
  /\ \A f \in DOMAIN initialRocketState :
       rocketParams[f] = initialRocketState[f]
  /\ rocketParams.selectedMotor = "A8-3"
  /\ angle = 0
  /\ windSpeed = 0
  /\ config = defaultConfig

C12_InputsUnchanged == [][rocketParams' = rocketParams]_vars

\* the loop has been left and the call is about to return FlightResult
AboutToReturn == pc = "break" \/ (pc = "loop" /\ ~LoopGuard(loc))

\* C13: the second call with the same rocketParams object, angle, wind speed,
\* wind profile and config returns what the first call returned (flight
\* still holds the result of the first call when the second is about to
\* return): the same FlightSamples, keyPoints and stability record.
C13_RunsIndependent ==
  (caller = "handleLaunch" /\ AboutToReturn) => FlightResult = flight

\* C17: for every profile, calculateWindSpeedAtHeight of the run's base wind
\* speed and of the height of the rocket is the base speed times a multiplier
\* between 0 and 3 (same sign as the base, at most three times its size), and
\* it is the base speed itself when the height is <= 0 or the profile is
\* uniform.
C17_WindMultiplier ==
  ~IsNaN(loc, "y") =>
    \A p \in DOMAIN WIND_PROFILES :
      LET w == calculateWindSpeedAtHeight(windSpeed, loc.y, p)
      IN  /\ Sgn(w) \in {0, Sgn(windSpeed)}
          /\ Abs(w) <= 3 * Abs(windSpeed)
          /\ (loc.y <= 0 \/ p = "uniform") => w = windSpeed

\* a pass of the loop has used the wind of the urban profile above the height
\* at which the power law exceeds the limit: the wind is three times the base
C17_WindCapped ==
  /\ windProfile = "urban" /\ windSpeed # 0 /\ pc = "loop"
  /\ Len(data) > 0 /\ ~IsNaN(loc, "y") /\ loc.y > 24 * Million
  /\ Pow(MulDiv(loc.y, 2, 3), WIND_PROFILES[windProfile]) > 3 * Million
  /\ calculateWindSpeedAtHeight(windSpeed, loc.y, windProfile) = 3 * windSpeed

\* flightData holds samples, and the last of them
SamplesPassed ==
  landing.flightDataType \in {"array", "object"} /\ Len(landing.data) > 0

TerminalSample == landing.data[Len(landing.data)]

\* C14: when the last sample passed to predictLanding has a height <= 0, the
\* result returned has timeToLanding 0, isPrediction false, landingX the X of
\* that sample and landingDistance its absolute value.
C14_LandedSampleNotPredicted ==
  ( /\ landing.pc = "returned"
    /\ SamplesPassed
    /\ "height" \in DOMAIN TerminalSample
    /\ TerminalSample.height <= 0 )
  => /\ landing.result.nan = {}
     /\ landing.result.timeToLanding = 0
     /\ ~landing.result.isPrediction
     /\ landing.result.landingX = TerminalSample.physicsX
     /\ landing.result.landingDistance = Abs(TerminalSample.physicsX)

\* predictLanding has returned from a call with a last sample below the
\* ground and away from the pad
C14_ReturnedForLandedSample ==
  /\ landing.pc = "returned"
  /\ SamplesPassed
  /\ "height" \in DOMAIN TerminalSample
  /\ TerminalSample.height < 0
  /\ TerminalSample.physicsX > 0
  /\ landing.result.landingDistance = TerminalSample.physicsX

\* flightData is a number, not an array, an empty array, or an array whose
\* last element is missing
InvalidFlightData ==
  ~SamplesPassed \/ "undefined" \in DOMAIN TerminalSample

\* rocketParams is not an object, or lacks numeric fields
InvalidRocketParams ==
  \/ ~landing.isObject
  \/ {"weight", "bodyWidth", "bodyHeight"} \ DOMAIN landing.rocketParams # {}

\* C15: a call of predictLanding with invalid flight data returns the zero
\* result (landingX 0, landingDistance 0, timeToLanding 0), and a call with
\* invalid rocketParams returns a result that is at least a definite one:
\* none of its numbers is NaN.
C15_InvalidInputGivesDefiniteResult ==
  /\ (landing.pc = "returned" /\ InvalidFlightData)
     => /\ landing.result.nan = {}
        /\ landing.result.landingX = 0
        /\ landing.result.landingDistance = 0
        /\ landing.result.timeToLanding = 0
  /\ (landing.pc = "returned" /\ InvalidRocketParams)
     => landing.result.nan = {}

\* the net force of one step of the integrator in the phase given by the
\* flags of the predictor, for the predictor's velocity and wind
IntegratorForces(c, effectiveWindSpeed) ==
  LET velocity == Hypot(c.currentVx, c.currentVy)
  IN  IF c.isParachuteActive
      THEN parachuteForces(landing.rocketParams, velocity, c.currentVx,
                           c.currentVy, effectiveWindSpeed)
      ELSE IF c.isParachuteEjected
      THEN deployingForces(landing.rocketParams, velocity, c.currentVx,
                           c.currentVy, effectiveWindSpeed)
      ELSE coastForces(landing.rocketParams, velocity,
                       Atan2(c.currentVx, c.currentVy), effectiveWindSpeed)

\* C20: in every pass of the predictor's loop on the result of a flight, the
\* net force (Fx, Fy) is the net force of the integrator's step of the same
\* phase at the same velocity, height and wind.
C20_SameForceModels ==
  (pc = "predicting" /\ landing.pc = "loop" /\ PredictionGuard(landing.c))
  => LET c == landing.c
         effectiveWindSpeed ==
           calculateWindSpeedAtHeight(landing.windSpeed, c.currentHeight,
                                      landing.windProfile)
     IN  predictedForces(landing.p, Hypot(c.currentVx, c.currentVy),
                         c.currentVx, c.currentVy, effectiveWindSpeed,
                         c.isParachuteActive, c.isParachuteEjected)
           = IntegratorForces(c, effectiveWindSpeed)

\* C16: a property function called on an argument that is not an object, or
\* that lacks one of the numeric geometry fields the function computes from,
\* returns the all-zero result (and so does not throw).
C16_InvalidGeometryGivesZeros ==
  \A f \in DOMAIN GeometryRead :
    ( /\ properties.outcome[f] # "notCalled"
      /\ \/ properties.kind # "object"
         \/ ~(GeometryRead[f] \subseteq DOMAIN properties.rocketParams) )
    => properties.outcome[f] = "zero"

\* a pass of the loop: Step is the only action taken while pc = "loop"
LoopPass == pc = "loop" /\ pc' \in {"loop", "break"}

ShowingFrame == animation.requested /\ ~animation.firstFrame

\* a frame has run and changed the playback
FrameRan ==
  << animation.elapsed, animation.timeIndex, animation.requested >>'
    # << animation.elapsed, animation.timeIndex, animation.requested >>

\* C19: sample number i of a run carries the time i * dt (to the half
\* millisecond: the engine accumulates it); a frame of the playback reads the
\* index floor(elapsed / dt) clamped into 0..length-1, which is in the
\* sequence, and shows that sample, whose time is the elapsed time to within
\* one step unless the clamp applied; the launch ends, with its results
\* published, in the frame that reads index length-1 and in no other, and
\* results are published at most once.  The frames are those of a playback
\* that handleReset has not interrupted.
C19_PlaybackContract ==
  /\ [](data # << >>
          => DblToMilli(DblAdd(data[Len(data)].time, << 32, 1610612, 0 >>))
               = 20 * (Len(data) - 1))
  /\ [](ui.completedFlights <= 1)
  /\ [][ IF animation'.reset THEN TRUE
         ELSE IF ShowingFrame
         THEN LET length    == Len(flight.data)
                  timeIndex == animation'.timeIndex
                  elapsed   == animation'.elapsed
                  finishes  == timeIndex = length - 1
              IN  FrameRan =>
                    /\ timeIndex \in 0..(length - 1)
                    /\ timeIndex
                         = Max(0, Min(DblFloorDiv(elapsed, dt), length - 1))
                    /\ ui'.currentHeight = flight.data[timeIndex + 1].height
                    /\ DblFloorDiv(elapsed, dt) < length
                         => /\ 20 * timeIndex <= DblToMilli(elapsed) + 1
                            /\ DblToMilli(elapsed) < 20 * timeIndex + 21
                    /\ ui.isLaunched
                    /\ ui'.isLaunched = ~finishes
                    /\ animation'.requested = ~finishes
                    /\ ui'.completedFlights
                         = ui.completedFlights + (IF finishes THEN 1 ELSE 0)
                    /\ ui'.flightResults
                         = (IF finishes THEN "results" ELSE ui.flightResults)
         ELSE /\ ui'.completedFlights = ui.completedFlights
              /\ ui'.isLaunched => ui.isLaunched \/ pc = "wrapped" ]_vars

\* a playback of more than 100 samples has ended in a frame that came later
\* than the last sample's time, after a frame that read a sample inside the
\* sequence
C19_PlaybackFinished ==
  /\ ~ui.isLaunched /\ ui.completedFlights = 1 /\ ui.flightResults = "results"
  /\ ~animation.requested
  /\ Len(flight.data) > 100
  /\ animation.timeIndex = Len(flight.data) - 1
  /\ DblFloorDiv(animation.elapsed, dt) > Len(flight.data) - 1

\* the values of the pass the loop is about to make, up to the physics-based
\* update of omega
NextPass ==
  turned(loc,
    response(loc, rocketParams, angle,
      dynamics(loc, rocketParams, angle,
        status(loc,
          sensed(loc, rocketParams, angle, windSpeed, windProfile,
                 parachuteState(loc, rocketParams))))))

\* the pass runs the thrust branch of the enhanced attitude control with the
\* limitation on, heading upwind in a wind of 0.5 m/s or more
LimitedPass(s) ==
  /\ config.enhancedAttitudeControl /\ config.windAngleLimitation
  /\ ~s.isCurrentlyZeroWind /\ ~s.onLaunchRail /\ ~s.ejected
  /\ ~s.thrustEndFlag /\ ~IsNaN(loc, "vx")
  /\ Abs(s.effectiveWindSpeed) >= 500
  /\ \/ s.effectiveWindSpeed < 0 /\ s.cvx > 0
     \/ s.effectiveWindSpeed > 0 /\ s.cvx < 0

\* C21: in every pass of powered free flight heading upwind in a wind of
\* 0.5 m/s or more, with both options on, the target attitude of the enhanced
\* control is at most 90 degrees in magnitude.
C21_TargetWithin90 ==
  (pc = "loop" /\ LoopGuard(loc))
  => LET s == NextPass
     IN  LimitedPass(s)
         => 2 * Abs(targetOmegaOf(Atan2(s.cvx, s.cvy), s.cvx,
                                  s.effectiveWindSpeed,
                                  config.windAngleLimitation)) <= PiU + 1

\* the last sample of the flight handed to handleLaunch, and its time in us
LastFlightSample == flight.data[Len(flight.data)]

LastTimePoint ==
  IF Len(flight.data) > 0 THEN 1000 * DblToMilli(LastFlightSample.time)
  ELSE 0

\* C22: the result of calculateFlightPathWithLanding has every field of the
\* engine's result with the engine's value (keyPoints with every key point of
\* the engine), its landing is the prediction with totalFlightTime = time of
\* the last sample + timeToLanding, which for a last sample at height <= 0 is
\* the time of the last sample, and keyPoints.predictedLanding.time is the
\* same value.
C22_WrapperAddsLanding ==
  pc = "wrapped"
  => /\ DOMAIN flight = DOMAIN FlightResult \cup {"landing"}
     /\ \A f \in DOMAIN FlightResult \ {"keyPoints"} :
          flight[f] = FlightResult[f]
     /\ DOMAIN flight.keyPoints = DOMAIN keyPoints \cup {"predictedLanding"}
     /\ \A k \in DOMAIN keyPoints : flight.keyPoints[k] = keyPoints[k]
     /\ \A f \in DOMAIN landing.result :
          flight.landing[f] = landing.result[f]
     /\ landing.result.nan = {}
     /\ flight.landing.totalFlightTime
          = LastTimePoint + landing.result.timeToLanding
     /\ (Len(flight.data) > 0 /\ LastFlightSample.height <= 0)
          => flight.landing.totalFlightTime = LastTimePoint
     /\ flight.keyPoints.predictedLanding.time
          = flight.landing.totalFlightTime

\* the wrapper has returned for a run that ended in the air, with a
\* prediction of the time left
C22_PredictedForAirborneRun ==
  /\ pc = "wrapped" /\ Len(flight.data) > 0
  /\ LastFlightSample.height > 0
  /\ landing.result.timeToLanding > 0
  /\ flight.landing.totalFlightTime > LastTimePoint

\* a pass that pushes a sample, without the enhanced attitude control and
\* with a number for omega before and after
SmoothedPass ==
  /\ LoopPass /\ pc' = "loop"
  /\ ~config.enhancedAttitudeControl
  /\ ~IsNaN(loc, "omega") /\ ~IsNaN(loc', "omega")

C24_RailHoldsAttitude ==
  [][ ( /\ LoopPass /\ pc' = "loop"
        /\ obs'.onLaunchRail
        /\ data'[Len(data')].nan \cap {"torque", "omega"} = {} )
        => /\ data'[Len(data')].torque = 0
           /\ loc'.omega = DegToRad(angle) ]_vars

\* C25: the absolute attitude of a pass, which is compared with
\* MAX_ABSOLUTE_ANGLE and recorded in the sample as absoluteAngleDegrees, lies
\* in -180 .. 180 degrees.
C25_AbsoluteAngleNormalized ==
  (pc = "loop" /\ LoopGuard(loc) /\ ~NextPass.omegaIsNaN)
  => Abs(normalizedAbsoluteAngleOf(NextPass.adjustedOmega)) <= 180000

\* predictLanding has returned from its loop with a number for timeToLanding
IntegratedForward ==
  /\ landing.pc = "returned" /\ landing.result.isPrediction
  /\ landing.steps > 0 /\ "timeToLanding" \notin landing.result.nan

\* C26: after a forward integration the returned timeToLanding is the time of
\* the passes made (0.05 s each), to within one pass; the number of passes is
\* bounded by the time budget; and the predicted height is never below 0.
C26_TimeToLandingIsElapsed ==
  /\ (landing.pc = "loop" \/ IntegratedForward)
       /\ ~IsNaN(landing.c, "currentHeight")
       => landing.c.currentHeight >= 0
  /\ landing.pc = "loop" /\ ~IsNaN(landing.c, "timeToLanding")
       => 50000 * landing.steps < landing.c.timeToLanding + 50000
  /\ IntegratedForward
       => Abs(landing.result.timeToLanding - 50000 * landing.steps) <= 50000


\* a pass in powered or coast free flight that evaluates the moments on a
\* numeric attitude
FreeFlightPass(s) == s.computes /\ ~s.onLaunchRail /\ ~s.omegaIsNaN

\* the fin moment of the pass on the rocket's fin dimensions, fin count,
\* speed, attitude, flight-path angle, fin CP and CG
ActualFinMoment(s) ==
  calculateFinMoment(<< rocketParams.finHeight, rocketParams.finBaseWidth,
                        rocketParams.finSweepLength, rocketParams.finTipWidth,
                        rocketParams.finCount, s.velocity, s.adjustedOmega,
                        s.flightAngle, "balsa", rocketParams.finCp,
                        rocketParams.noseHeight, rocketParams.bodyHeight,
                        rocketParams.bodyWidth,
                        rocketParams.centerOfGravity * 100 >>)

\* C27: in a free-flight pass with an effective wind of 0.1 m/s or more the
\* raw torque is the lift, drag and wind moments plus the fin moment of the
\* rocket's actual fin dimensions, fin count, speed, attitude, flight-path
\* angle, fin CP and CG; below 0.1 m/s it is 0.
C27_TorqueIsSumOfFour ==
  (pc = "loop" /\ LoopGuard(loc))
  => LET s == NextPass
     IN  FreeFlightPass(s)
         => IF s.isCurrentlyZeroWind THEN s.rawTorque = 0
            ELSE s.rawTorque
                 = rawTorqueOf(rocketParams, s.velocity, s.adjustedOmega,
                               s.omegaIsNaN, s.flightAngle,
                               s.effectiveWindSpeed, s.isCurrentlyZeroWind)
                   + ActualFinMoment(s)

\* the effective wind at every sample of d is a number of 0.1 m/s or more
WindySamples(d, first, last) ==
  /\ Abs(windSpeed) >= 100
  /\ \A i \in first .. last :
       /\ d[i].nan = {}
       /\ Abs(calculateWindSpeedAtHeight(windSpeed, d[i].height, windProfile))
            >= 100

\* the most the attitude may change in a pass, 0.06 rad (3 rad/s for dt2 =
\* 0.2 s, in ten parts), in urad
MaxStepChange == 60 * 1000

PublishesResults ==
  /\ animation.requested /\ ~animation'.requested
  /\ ui'.flightResults = "results"
  /\ ui'.completedFlights = ui.completedFlights + 1

\* C29: when the playback of a run that returned isTorqueStableOK false (and
\* so isStabilityOverallOK false) finishes, the results published have
\* isOverallOK false.
C29_TorqueFailsOverall ==
  [][ ( /\ PublishesResults
        /\ ~flight.angleStability.isTorqueStableOK
        /\ ~flight.angleStability.isStabilityOverallOK )
      => ~ui'.results.isOverallOK ]_vars

\* C30: once handleReset has completed, no animation frame of the launch
\* changes the simulation state or publishes flight results, whatever the
\* order of the frames, the renders and the call of handleReset.
C30_ResetCancelsPlayback ==
  [][ (animation.reset /\ animation'.reset /\ FrameRan) => ui' = ui ]_vars

=========================================================================
